---------------------------- MODULE Spec2Model ----------------------------
(*************************************************************************)
(* A model of the simulation core of garudastrike: the frame step        *)
(* `update` of src/components/GameCanvas.tsx, the input handler, the     *)
(* MENU reset effect, and the part of src/App.tsx that drives the game   *)
(* mode and receives the callbacks.                                      *)
(*                                                                       *)
(* Numbers.  The source computes positions and velocities in IEEE        *)
(* doubles.  The model keeps them in fixed point, Scale units per pixel; *)
(* a product with a fraction is rounded toward zero (MulFrac).  Lives of *)
(* particles and floating texts are kept in hundredths (1.0 = 100).      *)
(* Random draws (Math.random) are inputs of the step, drawn in           *)
(* hundredths from small sets.  Position, velocity, colour and size of   *)
(* particles and floating texts only feed the renderer and are left out: *)
(* a particle is its remaining life.                                     *)
(*************************************************************************)
EXTENDS Integers, Sequences, FiniteSets, TLC

-----------------------------------------------------------------------------
(* Program constants *)

PLAYER_SPEED_LERP == 15        \* 0.15, in hundredths
BASE_SHOOT_COOLDOWN == 15
RAPID_SHOOT_COOLDOWN == 8
ENEMY_SPAWN_RATE == 60
BOSS_WAVE_INTERVAL == 5
COMBO_TIMEOUT_FRAMES == 120
\* variant: a delay one frame shorter (rejected by C4_WaveAdvancesAfter121)
TransitionDelayShort == 120 - 1
TransitionDelay == 120         \* waveTransitionTimer.current > 120
ProjectileHitDamage == 15      \* p.hp -= 15
EnemyProjectileDamage == 15    \* damage: 15
RamDamage == 20                \* p.hp -= 20
HealAmount == 20               \* p.hp + 20
PlayerMaxHp == 100
PlayerSize == 40
LifeDecay == 2                 \* life -= 0.02, in hundredths
EnemyProjectileSize == 10
MaxShake == 30

Scale == 100                   \* fixed-point units per pixel

-----------------------------------------------------------------------------
(* Bounds of the model: the canvas the host gives, and the inputs drawn. *)

Width == 100                   \* canvas.width, pixels
Height == 260                  \* canvas.height, pixels
MaxTicks == 150                \* update frames explored in one behaviour
MaxPointerEvents == 1          \* pointer events delivered in one behaviour
MaxModeChanges == 2            \* mode buttons pressed in one behaviour
MaxLoadoutChanges == 1         \* loadout buttons pressed in one behaviour
PointerEvery == 60             \* frames between two samples of the pointer
MaxWave == 11            \* the waves whose end the mission runs start from
MissionFrames == 4       \* the frames of a mission run
PointerBurst == 3        \* pointer events delivered in one pointer run
PointerFrames == 3       \* the frames of a pointer run
DebriefFrames == 12      \* the frames of a debrief run
StreakFrames == 30       \* the frames of a streak run
BossFrames == 90         \* the frames of a boss run
RamFrames == 70                \* update frames of a run of RamSpec
MaxScoreSteps == 70      \* the scores the spawn policy is tabulated for, in steps of 500

W == Width * Scale
H == Height * Scale
PSize == PlayerSize * Scale

-----------------------------------------------------------------------------
(* Arithmetic *)

Min(a, b) == IF a < b THEN a ELSE b
Max(a, b) == IF a > b THEN a ELSE b
Abs(a) == IF a < 0 THEN -a ELSE a

\* d * num / den, rounded toward zero
MulFrac(d, num, den) ==
  IF d >= 0 THEN (d * num) \div den ELSE -(((-d) * num) \div den)

\* Math.floor(a / b) for b > 0
FloorDiv(a, b) == a \div b

\* Math.ceil(a / b) for a >= 0, b > 0
CeilDiv(a, b) == (a + b - 1) \div b

RECURSIVE SqrtSearch(_, _, _)
SqrtSearch(n, lo, hi) ==
  IF lo >= hi THEN lo
  ELSE LET mid == (lo + hi + 1) \div 2
       IN IF mid * mid <= n THEN SqrtSearch(n, mid, hi)
          ELSE SqrtSearch(n, lo, mid - 1)

\* floor of Math.sqrt(n), n < 2^30
ISqrt(n) == SqrtSearch(n, 0, 32767)

\* Math.sqrt(dx*dx + dy*dy) for dx, dy in fixed point; computed on tenths of
\* the operands so that the squares stay within 31 bits
Hypot(dx, dy) ==
  LET a == Abs(dx) \div 10
      b == Abs(dy) \div 10
  IN ISqrt(a * a + b * b) * 10

\* Math.sin(x), x in milliradians, result in thousandths (Bhaskara's
\* rational approximation on [0, pi], odd and 2*pi-periodic elsewhere)
SinMilli(x) ==
  LET pi == 3142
      t == x % (2 * pi)
      u == IF t > pi THEN t - pi ELSE t
      p == (u * (pi - u)) \div 100
      v == (16 * p * 1000) \div ((5 * pi * pi) \div 100 - 4 * p)
  IN IF t > pi THEN -v ELSE v

\* axis-aligned bounding boxes overlap (strict inequalities, as the code)
Overlap(ax, ay, aw, ah, bx, by, bw, bh) ==
  /\ ax < bx + bw
  /\ ax + aw > bx
  /\ ay < by + bh
  /\ ay + ah > by

\* Array.prototype.map: the array of f's values, built at once
Array(f) == SelectSeq(f, LAMBDA v : TRUE)

\* F of the value of v, v computed once: the state a statement leaves is
\* computed before the next statement reads it
Bind(v, F(_)) == CHOOSE y \in {F(x) : x \in {v}} : TRUE

\* the sequence of n copies of v
RECURSIVE Repeat(_, _)
Repeat(v, n) == IF n <= 0 THEN <<>> ELSE <<v>> \o Repeat(v, n - 1)

-----------------------------------------------------------------------------
(* The state *)

VARIABLES
  gameState,            \* App: MENU, PLAYING, GAME_OVER, CUSTOMIZE
  playerConfig,         \* App: the loadout, hull colour and trail type
  hud,                  \* App: the score, combo and health last reported
  highScore,            \* App: the high score state (and its stored copy)
  lastStats,            \* App: the GameStats the game-over event delivered
  player,               \* playerRef: pos, hp, weaponType, color
  targetPos,            \* targetPosRef
  enemies,              \* enemiesRef
  powerups,             \* powerupsRef
  projectiles,          \* projectilesRef
  particles,            \* particlesRef: remaining lives
  floatingTexts,        \* floatingTextsRef: remaining lives
  stats,                \* statsRef
  comboTimer,           \* comboTimerRef
  frameCount,           \* frameCountRef
  waveTransitionTimer,  \* waveTransitionTimer
  shakeIntensity,       \* shakeIntensityRef, in hundredths
  debrief,              \* App: the debrief shown, and the requests not yet answered
  out,                  \* the callbacks and cues raised by the last step, in order
  hist                  \* observers: counters over the run, read by the properties only

vars == << gameState, playerConfig, hud, highScore, lastStats, player, targetPos,
           enemies, powerups, projectiles, particles, floatingTexts, stats,
           comboTimer, frameCount, waveTransitionTimer, shakeIntensity, debrief,
           out, hist >>

-----------------------------------------------------------------------------
(* Records *)

Mission(type, target) ==
  [type |-> type, targetValue |-> target, currentValue |-> 0, isComplete |-> FALSE]

\* the stats object of useRef and of the MENU reset, apart from the mission
FreshStats(mission) ==
  [score |-> 0, wave |-> 1, enemiesDestroyed |-> 0, shotsFired |-> 0,
   combo |-> 0, maxCombo |-> 0, mission |-> mission]

Enemy(type, x, y, w, h, vy, hp, score) ==
  [type |-> type, x |-> x, y |-> y, w |-> w, h |-> h, vx |-> 0, vy |-> vy,
   hp |-> hp, maxHp |-> hp, scoreValue |-> score,
   phase |-> 1, attackTimer |-> 0, moveTimer |-> 0]

\* a projectile; nan marks a velocity (and then a position) that is NaN
Projectile(x, y, vx, vy, isPlayer, damage, size, type) ==
  [x |-> x, y |-> y, vx |-> vx, vy |-> vy, isPlayer |-> isPlayer,
   damage |-> damage, size |-> size, type |-> type, nan |-> FALSE]

PowerUp(x, y, kind) ==
  [x |-> x, y |-> y, hp |-> 1, powerUpType |-> kind]

PowerUpSize == 24 * Scale

\* one callback or audio cue: the function called, the code place that calls
\* it, and its argument (an integer; for spawnFloatingText the text shown)
Ev(cb, at, v) == [cb |-> cb, at |-> at, v |-> v]

Emit(w, cb, at, v) == [w EXCEPT !.out = Append(@, Ev(cb, at, v))]

-----------------------------------------------------------------------------
(* Spawner *)

addShake(w, intensity) ==
  [w EXCEPT !.shake = Min(@ + intensity * 100, MaxShake * 100)]

\* variant: the SURVIVAL target grows with every wave
\* (rejected by C17_MissionOfWave)
initMissionUncapped(wave, rand) ==
  IF wave % BOSS_WAVE_INTERVAL = 0 THEN Mission("BOSS", 1)
  ELSE IF wave > 2 /\ rand > 60 THEN Mission("SURVIVAL", 30 + wave * 2)
  ELSE Mission("ELIMINATION", 10 + wave * 2)

\* rand: the Math.random() draw, in hundredths
initMission(wave, rand) ==
  IF wave % BOSS_WAVE_INTERVAL = 0 THEN Mission("BOSS", 1)
  ELSE IF wave > 2 /\ rand > 60 THEN Mission("SURVIVAL", 30 + Min(wave, 10) * 2)
  ELSE Mission("ELIMINATION", 10 + wave * 2)

\* the call is logged with the wave it is given
spawnBoss(w, wave) ==
  LET hp == 500 + wave * 150
      b == [Enemy("boss", W \div 2 - 50 * Scale, -150 * Scale, 100 * Scale,
                  80 * Scale, 0, hp, 5000 * CeilDiv(wave, 5))
            EXCEPT !.phase = 1]
  IN Emit([w EXCEPT !.enemies = Append(@, b)], "spawnBoss", "spawn", wave)

\* typeRoll and xRoll: the two Math.random() draws, in hundredths; the call
\* is logged
spawnEnemy(w0, typeRoll, xRoll) ==
  Bind(w0, LAMBDA w :
  LET wave == w.stats.wave
      kind == IF typeRoll > 85 THEN "enemy_fast"
              ELSE IF wave > 2 /\ typeRoll > 70 THEN "enemy_kamikaze"
              ELSE "enemy_basic"
      size == CASE kind = "enemy_fast" -> 20 * Scale
                [] kind = "enemy_kamikaze" -> 25 * Scale
                [] OTHER -> 30 * Scale
      hp == IF kind = "enemy_kamikaze" THEN 2 ELSE 1
      speed == CASE kind = "enemy_fast" -> 4 * Scale
                 [] kind = "enemy_kamikaze" -> (5 * Scale) \div 2
                 [] OTHER -> 2 * Scale
      score == CASE kind = "enemy_fast" -> 200
                 [] kind = "enemy_kamikaze" -> 300
                 [] OTHER -> 100
      e == Enemy(kind, MulFrac(W - size, xRoll, 100), -50 * Scale, size, size,
                 speed + (wave * Scale) \div 10, hp, score)
  IN Emit([w EXCEPT !.enemies = Append(@, e)], "spawnEnemy", "spawn", 0))

spawnFloatingText(w) == [w EXCEPT !.texts = Append(@, 100)]

\* rand: the Math.random() draw, in hundredths
spawnPowerUp(w, x, y, rand) ==
  LET kind == IF rand < 40 THEN "HEALTH"
              ELSE IF rand < 60 THEN "WEAPON_SPREAD"
              ELSE IF rand < 80 THEN "WEAPON_RAPID"
              ELSE "WEAPON_PLASMA"
  IN [w EXCEPT !.powerups = Append(@, PowerUp(x, y, kind))]

spawnExplosion(w, count) ==
  [w EXCEPT !.particles = @ \o Repeat(100, count)]

\* a life of 0.2 outlasts ten decrements of 0.02 in double arithmetic
\* (0.2 - 10 * 0.02 > 0), which 21 hundredths reproduces
spawnMuzzleFlash(w, type) ==
  LET ps == CASE type = "BLASTER" -> Repeat(40, 5)
              [] type = "SPREAD" -> Repeat(30, 10)
              [] type = "RAPID" -> << 21, 21, 15 >>
              [] type = "PLASMA" -> Repeat(60, 12)
              [] OTHER -> << >>
  IN [w EXCEPT !.particles = @ \o ps]

\* variant: the turbo trail pushes the ship forward
\* (rejected by C26_LoadoutLeavesGameplayAlone)
spawnTrailParticlesTurboPush(w0) ==
  Bind(w0, LAMBDA w :
  IF w.player.hp <= 0 THEN w
  ELSE IF w.frameCount % 3 # 0 THEN w
  ELSE IF w.trail = "plasma" THEN [w EXCEPT !.particles = Append(@, 70)]
  ELSE IF w.trail = "turbo"
  THEN [w EXCEPT !.particles = @ \o << 50, 50 >>, !.player.y = Max(0, @ - Scale)]
  ELSE [w EXCEPT !.particles = Append(@, 60)])

spawnTrailParticles(w0) ==
  Bind(w0, LAMBDA w :
  IF w.player.hp <= 0 THEN w
  ELSE IF w.frameCount % 3 # 0 THEN w
  ELSE IF w.trail = "plasma" THEN [w EXCEPT !.particles = Append(@, 70)]
  ELSE IF w.trail = "turbo" THEN [w EXCEPT !.particles = @ \o << 50, 50 >>]
  ELSE [w EXCEPT !.particles = Append(@, 60)])

fireWeapon(w0) ==
  Bind(w0, LAMBDA w :
  LET p == w.player
      weapon == p.weaponType
      Bullet(vx, vy, damage, size) ==
        Projectile(p.x + PSize \div 2 - (size * Scale) \div 2, p.y,
                   vx * Scale, vy * Scale, TRUE, damage, size * Scale, weapon)
      shots == CASE weapon = "SPREAD" ->
                      << Bullet(0, -10, 1, 4), Bullet(-3, -9, 1, 4), Bullet(3, -9, 1, 4) >>
                 [] weapon = "PLASMA" -> << Bullet(0, -15, 3, 6) >>
                 [] weapon = "RAPID" -> << Bullet(0, -12, 1, 3) >>
                 [] OTHER -> << Bullet(0, -10, 1, 4) >>
      w1 == Emit(w, "playShoot", "fire", 0)
      w2 == [w1 EXCEPT !.stats.shotsFired = @ + 1]
      w3 == spawnMuzzleFlash(w2, weapon)
  IN [w3 EXCEPT !.projectiles = @ \o shots])

spawnEnemyProjectile(x, y, vx, vy, type) ==
  Projectile(x - 5 * Scale, y, vx, vy, FALSE, EnemyProjectileDamage,
             EnemyProjectileSize * Scale, type)

-----------------------------------------------------------------------------
(* Simulation step: timers, init, the customize and transition branches *)

shakeDecay(w0) ==
  Bind(w0, LAMBDA w :
  IF w.shake > 0
  THEN LET s == MulFrac(w.shake, 9, 10)
       IN [w EXCEPT !.shake = IF s < 50 THEN 0 ELSE s]
  ELSE w)

\* variant: the RAPID weapon fires on every frame
\* (rejected by C33_ShotsOnCooldownFrames)
autoShootRapidEveryFrame(w0) ==
  Bind(w0, LAMBDA w :
  LET currentCooldown == IF w.player.weaponType = "RAPID"
                         THEN 1 ELSE BASE_SHOOT_COOLDOWN
  IN IF w.frameCount % currentCooldown = 0 THEN fireWeapon(w) ELSE w)

\* variant: the timeout stands still while the mission is complete
\* (rejected by C9_ComboTimeout)
comboDecayStalled(w0) ==
  Bind(w0, LAMBDA w :
  IF w.comboTimer > 0 /\ ~w.stats.mission.isComplete
  THEN LET t == w.comboTimer - 1
       IN IF t <= 0
          THEN Emit([w EXCEPT !.comboTimer = t, !.stats.combo = 0],
                    "setCombo", "decay", 0)
          ELSE [w EXCEPT !.comboTimer = t]
  ELSE w)

comboDecay(w0) ==
  Bind(w0, LAMBDA w :
  IF w.comboTimer > 0
  THEN LET t == w.comboTimer - 1
       IN IF t <= 0
          THEN Emit([w EXCEPT !.comboTimer = t, !.stats.combo = 0],
                    "setCombo", "decay", 0)
          ELSE [w EXCEPT !.comboTimer = t]
  ELSE w)

initLogic(w0) ==
  Bind(w0, LAMBDA w :
  IF w.frameCount = 1
  THEN [w EXCEPT !.player.x = W \div 2 - 20 * Scale,
                 !.player.y = H - 100 * Scale,
                 !.target = [x |-> W \div 2, y |-> H - 100 * Scale],
                 !.stats.mission = initMission(1, 0)]
  ELSE w)

updateParticles(w0) ==
  Bind(w0, LAMBDA w :
  LET aged == [i \in 1..Len(w.particles) |-> w.particles[i] - LifeDecay]
  IN [w EXCEPT !.particles = SelectSeq(aged, LAMBDA l : l > 0)])

updateFloatingTexts(w0) ==
  Bind(w0, LAMBDA w :
  LET aged == [i \in 1..Len(w.texts) |-> w.texts[i] - LifeDecay]
  IN [w EXCEPT !.texts = SelectSeq(aged, LAMBDA l : l > 0)])

\* gameState === CUSTOMIZE: hover, trail preview, particle decay
customizeFrame(w0) ==
  Bind(w0, LAMBDA w :
  LET hoverY == (H \div 2 - PSize \div 2)
                + (SinMilli(w.frameCount * 50) * 10 * Scale) \div 1000
      w1 == [w EXCEPT !.player.x = W \div 2 - PSize \div 2, !.player.y = hoverY]
  IN updateParticles(spawnTrailParticles(w1)))

\* variant: the wave advance clears the powerups as well
\* (rejected by C20_WaveAdvanceClearsEnemiesAndProjectiles)
transitionFrameSweeping(w0, rand) ==
  Bind(w0, LAMBDA w :
  LET t == w.wtt + 1
      w1 == [w EXCEPT !.wtt = t]
      w2 == IF t = 1 THEN Emit(w1, "playWaveTransition", "transition", 0) ELSE w1
  IN IF t > TransitionDelay
     THEN [w2 EXCEPT !.stats.wave = @ + 1,
                     !.stats.mission = initMission(w.stats.wave + 1, rand),
                     !.wtt = 0,
                     !.projectiles = << >>,
                     !.enemies = << >>,
                     !.powerups = << >>]
     ELSE w2)

\* mission.isComplete: the wave transition delay; rand is initMission's draw
transitionFrame(w0, rand) ==
  Bind(w0, LAMBDA w :
  LET t == w.wtt + 1
      w1 == [w EXCEPT !.wtt = t]
      w2 == IF t = 1 THEN Emit(w1, "playWaveTransition", "transition", 0) ELSE w1
  IN IF t > TransitionDelay
     THEN [w2 EXCEPT !.stats.wave = @ + 1,
                     !.stats.mission = initMission(w.stats.wave + 1, rand),
                     !.wtt = 0,
                     !.projectiles = << >>,
                     !.enemies = << >>]
     ELSE w2)

-----------------------------------------------------------------------------
(* Simulation step: the active frame up to the collisions *)

\* variant: the move is not clamped to the screen
\* (rejected by C24_PlayerStaysOnScreen)
movePlayerUnclamped(w0) ==
  Bind(w0, LAMBDA w :
  LET p == w.player
      x1 == p.x + MulFrac(w.target.x - PSize \div 2 - p.x, PLAYER_SPEED_LERP, 100)
      y1 == p.y + MulFrac(w.target.y - PSize - 20 * Scale - p.y, PLAYER_SPEED_LERP, 100)
  IN [w EXCEPT !.player.x = x1, !.player.y = y1])

movePlayer(w0) ==
  Bind(w0, LAMBDA w :
  LET p == w.player
      x1 == p.x + MulFrac(w.target.x - PSize \div 2 - p.x, PLAYER_SPEED_LERP, 100)
      y1 == p.y + MulFrac(w.target.y - PSize - 20 * Scale - p.y, PLAYER_SPEED_LERP, 100)
  IN [w EXCEPT !.player.x = Max(0, Min(W - PSize, x1)),
               !.player.y = Max(0, Min(H - PSize, y1))])

autoShoot(w0) ==
  Bind(w0, LAMBDA w :
  LET currentCooldown == IF w.player.weaponType = "RAPID"
                         THEN RAPID_SHOOT_COOLDOWN ELSE BASE_SHOOT_COOLDOWN
  IN IF w.frameCount % currentCooldown = 0 THEN fireWeapon(w) ELSE w)

\* variant: a SURVIVAL mission is complete only after its last frame
\* (rejected by C19_SurvivalCountsFrames)
missionUpdatesSurvivalLate(w0) ==
  Bind(w0, LAMBDA w :
  LET m == w.stats.mission
  IN IF m.type = "SURVIVAL"
     THEN LET v == m.currentValue + 1
              w1 == [w EXCEPT !.stats.mission.currentValue = v]
          IN IF v > m.targetValue * 60
             THEN Emit([w1 EXCEPT !.stats.mission.isComplete = TRUE],
                       "playPowerUp", "mission", 0)
             ELSE w1
     ELSE IF m.type = "ELIMINATION"
     THEN IF m.currentValue >= m.targetValue
          THEN Emit([w EXCEPT !.stats.mission.isComplete = TRUE],
                    "playPowerUp", "mission", 0)
          ELSE w
     ELSE w)

\* variant: an ELIMINATION mission is marked complete only above its target
\* (rejected by C3_CompleteInNextMissionUpdate)
missionUpdatesLate(w0) ==
  Bind(w0, LAMBDA w :
  LET m == w.stats.mission
  IN IF m.type = "SURVIVAL"
     THEN LET v == m.currentValue + 1
              w1 == [w EXCEPT !.stats.mission.currentValue = v]
          IN IF v >= m.targetValue * 60
             THEN Emit([w1 EXCEPT !.stats.mission.isComplete = TRUE],
                       "playPowerUp", "mission", 0)
             ELSE w1
     ELSE IF m.type = "ELIMINATION"
     THEN IF m.currentValue > m.targetValue
          THEN Emit([w EXCEPT !.stats.mission.isComplete = TRUE],
                    "playPowerUp", "mission", 0)
          ELSE w
     ELSE w)

missionUpdates(w0) ==
  Bind(w0, LAMBDA w :
  LET m == w.stats.mission
  IN IF m.type = "SURVIVAL"
     THEN LET v == m.currentValue + 1
              w1 == [w EXCEPT !.stats.mission.currentValue = v]
          IN IF v >= m.targetValue * 60
             THEN Emit([w1 EXCEPT !.stats.mission.isComplete = TRUE],
                       "playPowerUp", "mission", 0)
             ELSE w1
     ELSE IF m.type = "ELIMINATION"
     THEN IF m.currentValue >= m.targetValue
          THEN Emit([w EXCEPT !.stats.mission.isComplete = TRUE],
                    "playPowerUp", "mission", 0)
          ELSE w
     ELSE w)

\* variant: a SURVIVAL wave spawns at the rate of an ELIMINATION wave
\* (rejected by C21_SpawnsOnIntervalFrames)
spawnRateUnscaled(score, type) ==
  Max(20, ENEMY_SPAWN_RATE - FloorDiv(score, 500))

\* Math.floor(rate) of the spawning logic
spawnRate(score, type) ==
  LET rate == ENEMY_SPAWN_RATE - FloorDiv(score, 500)
  IN IF type = "SURVIVAL" THEN Max(15, FloorDiv(rate * 6, 10)) ELSE Max(20, rate)

\* whether this frame spawns a regular enemy (and so draws its two rolls)
spawnsEnemy(w) ==
  /\ w.stats.mission.type # "BOSS"
  /\ w.frameCount % spawnRate(w.stats.score, w.stats.mission.type) = 0

\* variant: a BOSS mission spawns a boss unless an unhurt one exists
\* (rejected by C22_OneBossPerBossMission)
spawningRespawns(w0, typeRoll, xRoll) ==
  Bind(w0, LAMBDA w :
  IF w.stats.mission.type = "BOSS"
  THEN IF \E i \in 1..Len(w.enemies) :
            w.enemies[i].type = "boss" /\ w.enemies[i].hp = w.enemies[i].maxHp
       THEN w ELSE spawnBoss(w, w.stats.wave)
  ELSE IF spawnsEnemy(w) THEN spawnEnemy(w, typeRoll, xRoll) ELSE w)

spawning(w0, typeRoll, xRoll) ==
  Bind(w0, LAMBDA w :
  IF w.stats.mission.type = "BOSS"
  THEN IF \E i \in 1..Len(w.enemies) : w.enemies[i].type = "boss"
       THEN w ELSE spawnBoss(w, w.stats.wave)
  ELSE IF spawnsEnemy(w) THEN spawnEnemy(w, typeRoll, xRoll) ELSE w)

\* the boss's step: the enemy after it
\* variant: the boss attacks when its timer reaches the attack rate
\* (rejected by C34_BossAttacksEvery81Or41)
bossMoveEarly(e) ==
  LET mt == e.moveTimer + 1
      at == e.attackTimer + 1
      centre == W \div 2 - e.w \div 2
      y1 == IF e.y < 80 * Scale THEN e.y + 2 * Scale ELSE e.y
      x1 == IF e.y < 80 * Scale
            THEN e.x + MulFrac(centre - e.x, 5, 100)
            ELSE LET hoverX == centre + MulFrac(SinMilli(mt * 20), (W * 3) \div 10, 1000)
                 IN e.x + MulFrac(hoverX - e.x, 5, 100)
      ph == IF 2 * e.hp < e.maxHp THEN 2 ELSE 1
      attackRate == IF ph = 2 THEN 40 ELSE 80
  IN [e EXCEPT !.moveTimer = mt, !.x = x1, !.y = y1, !.phase = ph,
               !.attackTimer = IF at >= attackRate THEN 0 ELSE at]

bossMove(e) ==
  LET mt == e.moveTimer + 1
      at == e.attackTimer + 1
      centre == W \div 2 - e.w \div 2
      y1 == IF e.y < 80 * Scale THEN e.y + 2 * Scale ELSE e.y
      x1 == IF e.y < 80 * Scale
            THEN e.x + MulFrac(centre - e.x, 5, 100)
            ELSE LET hoverX == centre + MulFrac(SinMilli(mt * 20), (W * 3) \div 10, 1000)
                 IN e.x + MulFrac(hoverX - e.x, 5, 100)
      ph == IF 2 * e.hp < e.maxHp THEN 2 ELSE 1
      attackRate == IF ph = 2 THEN 40 ELSE 80
  IN [e EXCEPT !.moveTimer = mt, !.x = x1, !.y = y1, !.phase = ph,
               !.attackTimer = IF at > attackRate THEN 0 ELSE at]

\* the boss's step: the projectiles it fires (b: the boss before the step)
bossShots(b, p) ==
  Bind(bossMove(b), LAMBDA e :
  LET fired == e.attackTimer = 0
      cx == e.x + e.w \div 2
      cy == e.y + e.h
      dx == (p.x + PSize \div 2) - cx
      dy == (p.y + PSize \div 2) - cy
      mag == Max(1, Hypot(dx, dy))
      vx == MulFrac(dx, 6 * Scale, mag)
      \* a double is 0 only when dy is: a component below a hundredth is kept
      \* as one hundredth
      vy0 == MulFrac(dy, 6 * Scale, mag)
      vy == IF vy0 = 0 /\ dy > 0 THEN 1 ELSE IF vy0 = 0 /\ dy < 0 THEN -1 ELSE vy0
      Beam(v) == IF dx = 0 /\ dy = 0
                 THEN [spawnEnemyProjectile(cx, cy, 0, 0, "ENEMY_BEAM") EXCEPT !.nan = TRUE]
                 ELSE spawnEnemyProjectile(cx, cy, v, vy, "ENEMY_BEAM")
  IN IF ~fired THEN << >>
     ELSE IF e.phase = 1
     THEN << spawnEnemyProjectile(cx, cy, 0, 5 * Scale, "ENEMY_PULSE"),
             spawnEnemyProjectile(cx, cy, -2 * Scale, 4 * Scale, "ENEMY_PULSE"),
             spawnEnemyProjectile(cx, cy, 2 * Scale, 4 * Scale, "ENEMY_PULSE") >>
     ELSE << Beam(vx), Beam(vx + Scale), Beam(vx - Scale) >>)

kamikazeMove(e, p) ==
  LET dx == (p.x + PSize \div 2) - (e.x + e.w \div 2)
      dy == (p.y + PSize \div 2) - (e.y + e.h \div 2)
      distance == Hypot(dx, dy)
      ax == IF distance > 0 THEN e.vx + MulFrac(dx, Scale \div 10, distance) ELSE e.vx
      ay == IF distance > 0 THEN e.vy + MulFrac(dy, Scale \div 10, distance) ELSE e.vy
      maxSpeed == 5 * Scale
      speed == Hypot(ax, ay)
      vx == IF distance > 0 /\ speed > maxSpeed THEN MulFrac(ax, maxSpeed, speed) ELSE ax
      vy == IF distance > 0 /\ speed > maxSpeed THEN MulFrac(ay, maxSpeed, speed) ELSE ay
  IN [e EXCEPT !.vx = vx, !.vy = vy, !.x = @ + vx, !.y = @ + vy]

enemyMove(e, p) ==
  IF e.type = "boss" THEN bossMove(e)
  ELSE IF e.type = "enemy_kamikaze" THEN kamikazeMove(e, p)
  ELSE [e EXCEPT !.x = @ + e.vx, !.y = @ + e.vy]

RECURSIVE allBossShots(_, _, _)
allBossShots(es, p, i) ==
  IF i > Len(es) THEN << >>
  ELSE (IF es[i].type = "boss" THEN bossShots(es[i], p) ELSE << >>)
       \o allBossShots(es, p, i + 1)

RECURSIVE shootCues(_, _, _)
shootCues(w, shots, i) ==
  IF i > Len(shots) THEN w
  ELSE shootCues(IF i % 3 = 1 THEN Emit(w, "playShoot", "boss", 0) ELSE w, shots, i + 1)

updateEnemies(w0) ==
  Bind(w0, LAMBDA w :
    Bind(allBossShots(w.enemies, w.player, 1), LAMBDA shots :
      shootCues([w EXCEPT !.enemies = Array([i \in 1..Len(w.enemies) |->
                                               enemyMove(w.enemies[i], w.player)]),
                          !.projectiles = @ \o shots],
                shots, 1)))

updatePowerups(w0) ==
  Bind(w0, LAMBDA w :
  [w EXCEPT !.powerups = Array([i \in 1..Len(w.powerups) |->
                            [w.powerups[i] EXCEPT !.y = @ + 2 * Scale]])])

updateProjectiles(w0) ==
  Bind(w0, LAMBDA w :
  [w EXCEPT !.projectiles = Array([i \in 1..Len(w.projectiles) |->
     LET q == w.projectiles[i]
     IN IF q.nan THEN q ELSE [q EXCEPT !.x = @ + q.vx, !.y = @ + q.vy]])])

-----------------------------------------------------------------------------
(* Collision and resolution *)

\* variant: a kill costs the enemy's score value
\* (rejected by C11_ScoreNeverDecreases)
killScorePenalty(scoreValue, combo) == 0 - scoreValue

\* variant: the multiplier is that of the combo before the kill
\* (rejected by C31_KillPaysDoubleProduct)
killScoreBefore(scoreValue, combo) == (scoreValue * Min(30, 9 + combo)) \div 10

\* Math.floor(scoreValue * Math.min(3, 1 + combo * 0.1)) as doubles compute
\* it: 1 + 13 * 0.1 is 2.3 and 100 * 2.3 is 229.99999999999997
killScore(scoreValue, combo) ==
  LET exact == (scoreValue * Min(30, 10 + combo)) \div 10
  IN IF combo = 13 /\ scoreValue \in {100, 200} THEN exact - 1 ELSE exact

\* the kill roll of the n-th death resolved in this frame
KillRoll(kr, n) == kr[Min(n, Len(kr))]

\* variant: the game over clears the wave counter
\* (rejected by C23_WaveChangesByTransitionOnly)
gameOverClearsWave(w0, at) ==
  Bind(w0, LAMBDA w :
  LET w1 == Emit(w, "playGameOver", at, 0)
      w2 == Emit(w1, "onGameOver", at, w.stats.score)
  IN [w2 EXCEPT !.delivered = w.stats, !.gameOvers = @ + 1, !.stats.wave = 0])

\* onGameOver(statsRef.current): the receiver is handed the stats object
gameOver(w0, at) ==
  Bind(w0, LAMBDA w :
  LET w1 == Emit(w, "playGameOver", at, 0)
      w2 == Emit(w1, "onGameOver", at, w.stats.score)
  IN [w2 EXCEPT !.delivered = w.stats, !.gameOvers = @ + 1])

\* variant: a kill restarts the timer and reports the combo without raising it
\* (rejected by C7_ComboCountsKills)
comboLogicStuck(w0) ==
  Bind(w0, LAMBDA w :
    Emit([w EXCEPT !.comboTimer = COMBO_TIMEOUT_FRAMES], "setCombo", "kill",
         w.stats.combo))

\* COMBO LOGIC of a kill: the timer restarts, the combo grows by one
comboLogic(w0) ==
  Bind(w0, LAMBDA w :
    LET c == w.stats.combo + 1
    IN Emit([w EXCEPT !.comboTimer = COMBO_TIMEOUT_FRAMES,
                      !.stats.combo = c,
                      !.stats.maxCombo = IF c > @ THEN c ELSE @],
            "setCombo", "kill", c))

\* enemy j has just been brought to hp <= 0 by a player projectile
enemyDeath(w0, j, kr) ==
  Bind(w0, LAMBDA wd :
  Bind([comboLogic(addShake(Emit(wd, "playExplosion", "kill",
                                 IF wd.enemies[j].type = "boss" THEN 1 ELSE 0),
                            IF wd.enemies[j].type = "boss" THEN 20 ELSE 5))
        EXCEPT !.kills = @ + 1],
       LAMBDA w :
  LET e == w.enemies[j]
      boss == e.type = "boss"
      roll == KillRoll(kr, w.kills)
      finalScore == killScore(e.scoreValue, w.stats.combo)
      score == w.stats.score + finalScore
      m == w.stats.mission
      w3 == Emit([w EXCEPT !.stats.score = score,
                           !.stats.enemiesDestroyed = @ + 1],
                 "setScore", "kill", score)
      w4 == spawnFloatingText(spawnExplosion(w3, IF boss THEN 20 ELSE 8))
      w5 == IF w.stats.combo > 1 THEN spawnFloatingText(w4) ELSE w4
      w6 == IF m.type = "ELIMINATION" /\ ~m.isComplete
            THEN [w5 EXCEPT !.stats.mission.currentValue = @ + 1] ELSE w5
      px == e.x + e.w \div 2
      py == e.y + e.h \div 2
  IN IF boss
     THEN spawnPowerUp(
            spawnPowerUp(Emit([w6 EXCEPT !.stats.mission.isComplete = TRUE],
                              "playPowerUp", "kill", 0),
                         px - 10 * Scale, py, roll.p1),
            px + 20 * Scale, py, roll.p2)
     ELSE IF roll.drop < 15 THEN spawnPowerUp(w6, px - 10 * Scale, py, roll.p1)
     ELSE w6))

\* findIndex: the first enemy the projectile overlaps, 0 when none
RECURSIVE hitIndex(_, _, _)
hitIndex(q, es, j) ==
  IF j > Len(es) THEN 0
  ELSE IF Overlap(q.x, q.y, q.size, q.size, es[j].x, es[j].y, es[j].w, es[j].h)
       THEN j
       ELSE hitIndex(q, es, j + 1)

\* variant: a hit takes twice the projectile's damage
\* (rejected by C15_HitBelowLethalOnlyLowersHp)
bulletHitsEnemyTwice(w0, i, kr) ==
  Bind(w0, LAMBDA w :
  LET q == w.projectiles[i]
      j == hitIndex(q, w.enemies, 1)
  IN IF j = 0 THEN w
     ELSE LET hp1 == w.enemies[j].hp - 2 * q.damage
              w1 == [w EXCEPT !.enemies[j].hp = hp1, !.projectiles[i].damage = 0]
              w2 == Emit(spawnExplosion(w1, 2), "spawnExplosion", "bullet", 2)
          IN IF hp1 <= 0 THEN enemyDeath(w2, j, kr) ELSE w2)

\* variant: a bullet passes through the enemy it hits
\* (rejected by C32_ProjectilesSingleUse)
bulletHitsEnemyPiercing(w0, i, kr) ==
  Bind(w0, LAMBDA w :
  LET q == w.projectiles[i]
      j == hitIndex(q, w.enemies, 1)
  IN IF j = 0 THEN w
     ELSE LET hp1 == w.enemies[j].hp - q.damage
              w1 == [w EXCEPT !.enemies[j].hp = hp1]
              w2 == Emit(spawnExplosion(w1, 2), "spawnExplosion", "bullet", 2)
          IN IF hp1 <= 0 THEN enemyDeath(w2, j, kr) ELSE w2)

\* 1. player bullet i against the enemies; the hit's spawnExplosion(x, y,
\* '#ffffff', 2) is logged with its particle count
bulletHitsEnemy(w0, i, kr) ==
  Bind(w0, LAMBDA w :
  LET q == w.projectiles[i]
      j == hitIndex(q, w.enemies, 1)
  IN IF j = 0 THEN w
     ELSE LET hp1 == w.enemies[j].hp - q.damage
              w1 == [w EXCEPT !.enemies[j].hp = hp1, !.projectiles[i].damage = 0]
              w2 == Emit(spawnExplosion(w1, 2), "spawnExplosion", "bullet", 2)
          IN IF hp1 <= 0 THEN enemyDeath(w2, j, kr) ELSE w2)

RECURSIVE playerBulletsHitEnemies(_, _, _)
playerBulletsHitEnemies(w0, i, kr) ==
  Bind(w0, LAMBDA w :
  IF i > Len(w.projectiles) THEN w
  ELSE playerBulletsHitEnemies(
         IF w.projectiles[i].isPlayer THEN bulletHitsEnemy(w, i, kr) ELSE w,
         i + 1, kr))

\* variant: damage leaves the combo alone (rejected by C8_DamageBreaksCombo)
comboBreakSilent(w, at) == w

\* the player is damaged: statsRef.current.combo = 0; setCombo(0)
\* variant: the damage event reports a combo of 0 and keeps the streak
\* (rejected by C38_ComboWithinMaxCombo)
comboBreakReportOnly(w, at) == Emit(w, "setCombo", at, 0)

comboBreak(w, at) == Emit([w EXCEPT !.stats.combo = 0], "setCombo", at, 0)

\* 2. enemy projectile i against the player
projectileHitsPlayer(w0, i) ==
  Bind(w0, LAMBDA w :
  LET q == w.projectiles[i]
      p == w.player
  IN IF ~q.nan /\ Overlap(p.x, p.y, PSize, PSize, q.x, q.y, q.size, q.size)
     THEN LET hp1 == p.hp - ProjectileHitDamage
              w1 == [w EXCEPT !.projectiles[i].damage = 0,
                              !.player.hp = hp1,
                              !.player.weaponType = "BLASTER"]
              w2 == addShake(Emit(Emit(w1, "setHealth", "hit", hp1),
                                  "playExplosion", "hit", 0), 10)
              w3 == comboBreak(w2, "hit")
              w4 == spawnExplosion(w3, 5)
          IN IF hp1 <= 0 THEN gameOver(w4, "hit") ELSE w4
     ELSE w)

RECURSIVE enemyProjectilesHitPlayer(_, _)
enemyProjectilesHitPlayer(w0, i) ==
  Bind(w0, LAMBDA w :
  IF i > Len(w.projectiles) THEN w
  ELSE enemyProjectilesHitPlayer(
         IF ~w.projectiles[i].isPlayer THEN projectileHitsPlayer(w, i) ELSE w,
         i + 1))

\* variant: a boss that rams the player ends its mission
\* (rejected by C18_BossMissionCompletesOnBossDeath)
enemyRamsPlayerBossYields(w0, j) ==
  Bind(w0, LAMBDA w :
  LET e == w.enemies[j]
      p == w.player
  IN IF e.hp > 0 /\ Overlap(p.x, p.y, PSize, PSize, e.x, e.y, e.w, e.h)
     THEN LET hp1 == p.hp - RamDamage
              w1 == [w EXCEPT !.player.hp = hp1,
                              !.player.weaponType = "BLASTER",
                              !.enemies[j].hp = IF e.type # "boss" THEN 0 ELSE @,
                              !.stats.mission.isComplete =
                                 IF e.type = "boss" THEN TRUE ELSE @]
              w2 == IF e.type # "boss" /\ w.stats.mission.type = "ELIMINATION"
                    THEN [w1 EXCEPT !.stats.mission.currentValue = @ + 1] ELSE w1
              w3 == addShake(Emit(Emit(w2, "setHealth", "ram", hp1),
                                  "playExplosion", "ram", 0), 15)
              w4 == comboBreak(w3, "ram")
              w5 == spawnExplosion(w4, 10)
          IN IF hp1 <= 0 THEN gameOver(w5, "ram") ELSE w5
     ELSE w)

\* variant: the enemy that rams the player survives the collision
\* (rejected by C14_RamCostsTwenty)
enemyRamsPlayerSpared(w0, j) ==
  Bind(w0, LAMBDA w :
  LET e == w.enemies[j]
      p == w.player
  IN IF e.hp > 0 /\ Overlap(p.x, p.y, PSize, PSize, e.x, e.y, e.w, e.h)
     THEN LET hp1 == p.hp - RamDamage
              w1 == [w EXCEPT !.player.hp = hp1,
                              !.player.weaponType = "BLASTER"]
              w2 == IF e.type # "boss" /\ w.stats.mission.type = "ELIMINATION"
                    THEN [w1 EXCEPT !.stats.mission.currentValue = @ + 1] ELSE w1
              w3 == addShake(Emit(Emit(w2, "setHealth", "ram", hp1),
                                  "playExplosion", "ram", 0), 15)
              w4 == comboBreak(w3, "ram")
              w5 == spawnExplosion(w4, 10)
          IN IF hp1 <= 0 THEN gameOver(w5, "ram") ELSE w5
     ELSE w)

\* 3. enemy j against the player
\* variant: a ram counts for the mission only while it is unfinished
\* (rejected by C37_RamGivesNoReward)
enemyRamsPlayerUnfinished(w0, j) ==
  Bind(w0, LAMBDA w :
  LET e == w.enemies[j]
      p == w.player
  IN IF e.hp > 0 /\ Overlap(p.x, p.y, PSize, PSize, e.x, e.y, e.w, e.h)
     THEN LET hp1 == p.hp - RamDamage
              w1 == [w EXCEPT !.player.hp = hp1,
                              !.player.weaponType = "BLASTER",
                              !.enemies[j].hp = IF e.type # "boss" THEN 0 ELSE @]
              w2 == IF /\ e.type # "boss"
                       /\ w.stats.mission.type = "ELIMINATION"
                       /\ ~w.stats.mission.isComplete
                    THEN [w1 EXCEPT !.stats.mission.currentValue = @ + 1] ELSE w1
              w3 == addShake(Emit(Emit(w2, "setHealth", "ram", hp1),
                                  "playExplosion", "ram", 0), 15)
              w4 == comboBreak(w3, "ram")
              w5 == spawnExplosion(w4, 10)
          IN IF hp1 <= 0 THEN gameOver(w5, "ram") ELSE w5
     ELSE w)

enemyRamsPlayer(w0, j) ==
  Bind(w0, LAMBDA w :
  LET e == w.enemies[j]
      p == w.player
  IN IF e.hp > 0 /\ Overlap(p.x, p.y, PSize, PSize, e.x, e.y, e.w, e.h)
     THEN LET hp1 == p.hp - RamDamage
              w1 == [w EXCEPT !.player.hp = hp1,
                              !.player.weaponType = "BLASTER",
                              !.enemies[j].hp = IF e.type # "boss" THEN 0 ELSE @]
              w2 == IF e.type # "boss" /\ w.stats.mission.type = "ELIMINATION"
                    THEN [w1 EXCEPT !.stats.mission.currentValue = @ + 1] ELSE w1
              w3 == addShake(Emit(Emit(w2, "setHealth", "ram", hp1),
                                  "playExplosion", "ram", 0), 15)
              w4 == comboBreak(w3, "ram")
              w5 == spawnExplosion(w4, 10)
          IN IF hp1 <= 0 THEN gameOver(w5, "ram") ELSE w5
     ELSE w)

RECURSIVE enemiesRamPlayer(_, _)
enemiesRamPlayer(w0, j) ==
  Bind(w0, LAMBDA w :
  IF j > Len(w.enemies) THEN w
  ELSE enemiesRamPlayer(enemyRamsPlayer(w, j), j + 1))

\* powerUpType.replace('WEAPON_', ''): the label of a pickup's floating text
PickupLabel(powerUpType) ==
  CASE powerUpType = "WEAPON_SPREAD" -> "SPREAD"
    [] powerUpType = "WEAPON_RAPID" -> "RAPID"
    [] powerUpType = "WEAPON_PLASMA" -> "PLASMA"
    [] OTHER -> powerUpType

\* variant: the RAPID powerup arms the ship with the SPREAD weapon
\* (rejected by C13_WeaponFollowsPickupsAndDamage)
powerupHitsPlayerSwapped(w0, k) ==
  Bind(w0, LAMBDA w :
  LET pu == w.powerups[k]
      p == w.player
  IN IF Overlap(p.x, p.y, PSize, PSize, pu.x, pu.y, PowerUpSize, PowerUpSize)
     THEN LET w1 == [w EXCEPT !.powerups[k].hp = 0]
              hp1 == Min(PlayerMaxHp, p.hp + HealAmount)
              w2 == IF pu.powerUpType = "HEALTH"
                    THEN Emit(Emit([w1 EXCEPT !.player.hp = hp1],
                                   "playPowerUp", "pickup", 0),
                              "setHealth", "pickup", hp1)
                    ELSE [Emit(w1, "playWeaponUp", "pickup", 0)
                          EXCEPT !.player.weaponType =
                            CASE pu.powerUpType = "WEAPON_SPREAD" -> "SPREAD"
                              [] pu.powerUpType = "WEAPON_RAPID" -> "SPREAD"
                              [] pu.powerUpType = "WEAPON_PLASMA" -> "PLASMA"
                              [] OTHER -> @]
          IN Emit(spawnFloatingText(spawnExplosion(w2, 8)),
                  "spawnFloatingText", "pickup", PickupLabel(pu.powerUpType))
     ELSE w)

\* variant: a HEALTH powerup heals beyond maxHp
\* (rejected by C16_HpWithinMaxHp)
powerupHitsPlayerUncapped(w0, k) ==
  Bind(w0, LAMBDA w :
  LET pu == w.powerups[k]
      p == w.player
  IN IF Overlap(p.x, p.y, PSize, PSize, pu.x, pu.y, PowerUpSize, PowerUpSize)
     THEN LET w1 == [w EXCEPT !.powerups[k].hp = 0]
              hp1 == p.hp + HealAmount
              w2 == IF pu.powerUpType = "HEALTH"
                    THEN Emit(Emit([w1 EXCEPT !.player.hp = hp1],
                                   "playPowerUp", "pickup", 0),
                              "setHealth", "pickup", hp1)
                    ELSE [Emit(w1, "playWeaponUp", "pickup", 0)
                          EXCEPT !.player.weaponType =
                            CASE pu.powerUpType = "WEAPON_SPREAD" -> "SPREAD"
                              [] pu.powerUpType = "WEAPON_RAPID" -> "RAPID"
                              [] pu.powerUpType = "WEAPON_PLASMA" -> "PLASMA"
                              [] OTHER -> @]
          IN Emit(spawnFloatingText(spawnExplosion(w2, 8)),
                  "spawnFloatingText", "pickup", PickupLabel(pu.powerUpType))
     ELSE w)

\* 4. powerup k against the player; the floating text's label is logged as
\* the argument of spawnFloatingText
powerupHitsPlayer(w0, k) ==
  Bind(w0, LAMBDA w :
  LET pu == w.powerups[k]
      p == w.player
  IN IF Overlap(p.x, p.y, PSize, PSize, pu.x, pu.y, PowerUpSize, PowerUpSize)
     THEN LET w1 == [w EXCEPT !.powerups[k].hp = 0]
              hp1 == Min(PlayerMaxHp, p.hp + HealAmount)
              w2 == IF pu.powerUpType = "HEALTH"
                    THEN Emit(Emit([w1 EXCEPT !.player.hp = hp1],
                                   "playPowerUp", "pickup", 0),
                              "setHealth", "pickup", hp1)
                    ELSE [Emit(w1, "playWeaponUp", "pickup", 0)
                          EXCEPT !.player.weaponType =
                            CASE pu.powerUpType = "WEAPON_SPREAD" -> "SPREAD"
                              [] pu.powerUpType = "WEAPON_RAPID" -> "RAPID"
                              [] pu.powerUpType = "WEAPON_PLASMA" -> "PLASMA"
                              [] OTHER -> @]
          IN Emit(spawnFloatingText(spawnExplosion(w2, 8)),
                  "spawnFloatingText", "pickup", PickupLabel(pu.powerUpType))
     ELSE w)

RECURSIVE powerupsHitPlayer(_, _)
powerupsHitPlayer(w0, k) ==
  Bind(w0, LAMBDA w :
  IF k > Len(w.powerups) THEN w
  ELSE powerupsHitPlayer(powerupHitsPlayer(w, k), k + 1))

\* variant: an enemy is kept until it is 200 below the screen
\* (rejected by C35_CleanupLeavesNoLitter)
cleanupLate(w) ==
  [w EXCEPT
     !.projectiles = SelectSeq(@, LAMBDA q :
        ~q.nan /\ q.damage > 0 /\ q.y > -50 * Scale /\ q.y < H + 50 * Scale),
     !.enemies = SelectSeq(@, LAMBDA e :
        e.hp > 0 /\ (e.type = "boss" \/ e.y < H + 200 * Scale)),
     !.powerups = SelectSeq(@, LAMBDA pu : pu.hp > 0 /\ pu.y < H + 50 * Scale)]

cleanup(w) ==
  [w EXCEPT
     !.projectiles = SelectSeq(@, LAMBDA q :
        ~q.nan /\ q.damage > 0 /\ q.y > -50 * Scale /\ q.y < H + 50 * Scale),
     !.enemies = SelectSeq(@, LAMBDA e :
        e.hp > 0 /\ (e.type = "boss" \/ e.y < H + 100 * Scale)),
     !.powerups = SelectSeq(@, LAMBDA pu : pu.hp > 0 /\ pu.y < H + 50 * Scale)]

-----------------------------------------------------------------------------
(* The frame *)

\* the four collision passes, in the code's order
collisions(w, kr) ==
  powerupsHitPlayer(
    enemiesRamPlayer(
      enemyProjectilesHitPlayer(
        playerBulletsHitEnemies(w, 1, kr), 1), 1), 1)

\* the frame of an unfinished mission, from the player's move to the
\* integration of motion; typeRoll, xRoll: spawnEnemy's draws
motion(w, typeRoll, xRoll) ==
  LET w1 == autoShoot(spawnTrailParticles(movePlayer(w)))
      w2 == spawning(missionUpdates(w1), typeRoll, xRoll)
      w3 == updateProjectiles(updatePowerups(updateEnemies(w2)))
  IN updateFloatingTexts(updateParticles(w3))

activeFrame(w, r) == cleanup(collisions(motion(w, r.type, r.x), r.kills))

\* variant: the frame of a complete mission runs like any other
\* (rejected by C5_TransitionFreezes)
updateUnfrozen(w0, r) ==
  Bind(w0, LAMBDA w :
    Bind(initLogic(comboDecay(shakeDecay(
           [w EXCEPT !.frameCount = @ + 1, !.out = << >>, !.kills = 0]))),
         LAMBDA w1 :
           IF w.gs = "CUSTOMIZE" THEN customizeFrame(w1)
           ELSE IF w.gs # "PLAYING" THEN w1
           ELSE activeFrame(w1, r)))

\* update(canvas), called by loop in PLAYING and CUSTOMIZE; r: the frame's
\* random draws
update(w0, r) ==
  Bind(w0, LAMBDA w :
    Bind(initLogic(comboDecay(shakeDecay(
           [w EXCEPT !.frameCount = @ + 1, !.out = << >>, !.kills = 0]))),
         LAMBDA w1 :
           IF w.gs = "CUSTOMIZE" THEN customizeFrame(w1)
           ELSE IF w.gs # "PLAYING" THEN w1
           ELSE IF w1.stats.mission.isComplete THEN transitionFrame(w1, r.mission)
           ELSE activeFrame(w1, r)))

-----------------------------------------------------------------------------
(* Reading the events of a step *)

HasEv(o, cb, at) == \E i \in 1..Len(o) : o[i].cb = cb /\ o[i].at = at

HasCb(o, cb) == \E i \in 1..Len(o) : o[i].cb = cb

\* the arguments passed to callback cb, in order
Args(o, cb) ==
  LET sel == SelectSeq(o, LAMBDA e : e.cb = cb)
  IN [i \in 1..Len(sel) |-> sel[i].v]

\* the argument of the last call of cb, or dflt when it was not called
LastArg(o, cb, dflt) ==
  LET a == Args(o, cb) IN IF Len(a) = 0 THEN dflt ELSE a[Len(a)]

\* the number of events of o that are calls of cb at place at
Count(o, cb, at) == Len(SelectSeq(o, LAMBDA e : e.cb = cb /\ e.at = at))

\* the number of bosses among the enemies es
Bosses(es) == Len(SelectSeq(es, LAMBDA e : e.type = "boss"))

\* the phase of the boss among the enemies es, 1 without a boss
PhaseOf(es) ==
  LET bs == SelectSeq(es, LAMBDA e : e.type = "boss")
  IN IF Len(bs) = 0 THEN 1 ELSE bs[1].phase

\* the frames since the last attack of the boss among the enemies es, -1
\* when there is no boss or it has not attacked yet: its attack timer, which
\* falls behind its move timer at the first attack
SinceAttack(es) ==
  LET bs == SelectSeq(es, LAMBDA e : e.type = "boss")
  IN IF Len(bs) = 0 \/ bs[1].moveTimer = bs[1].attackTimer THEN -1
     ELSE bs[1].attackTimer

\* the player-damage events of a step
IsDamage(e) == e.cb = "setHealth" /\ e.at \in {"hit", "ram"}

\* the length of the kill streak after the events o, from a streak of n:
\* a kill extends it, a combo timeout or a player-damage event ends it
RECURSIVE StreakAfter(_, _, _)
StreakAfter(n, o, i) ==
  IF i > Len(o) THEN n
  ELSE StreakAfter(
         IF o[i].cb = "playExplosion" /\ o[i].at = "kill" THEN n + 1
         ELSE IF IsDamage(o[i]) \/ (o[i].cb = "setCombo" /\ o[i].at = "decay") THEN 0
         ELSE n,
         o, i + 1)

-----------------------------------------------------------------------------
(* The random draws of a frame, in hundredths *)

TypeRolls == {50, 80, 90}       \* typeRoll: <= 0.70, in (0.70, 0.85], > 0.85
XRolls == {0, 60, 90}           \* the spawn column, as a fraction of the width
MissionRolls == {30, 80}        \* initMission: rand <= 0.6, rand > 0.6
PowerRolls == {20, 50, 70, 90}  \* spawnPowerUp: the four kinds

NoDrop == [drop |-> 50, p1 |-> 0, p2 |-> 0]

\* the draws of a frame that draws nothing
NoRolls == [type |-> 0, x |-> 0, mission |-> 0, kills |-> << NoDrop >>]

\* the draws of one enemy death: the drop roll and the kinds of the powerups
KillRolls(boss) ==
  IF boss THEN {[drop |-> 50, p1 |-> a, p2 |-> b] : a \in PowerRolls, b \in PowerRolls}
  ELSE {NoDrop} \cup {[drop |-> 10, p1 |-> a, p2 |-> 0] : a \in PowerRolls}

\* the draws of the deaths of one frame; a frame with more than two deaths
\* repeats the second draw
KillRollSeqs(n, boss) ==
  IF n = 0 THEN { << NoDrop >> }
  ELSE IF n = 1 THEN { << k >> : k \in KillRolls(boss) }
  ELSE { << k1, k2 >> : k1 \in KillRolls(boss), k2 \in KillRolls(boss) }

-----------------------------------------------------------------------------
(* The canvas component's state as one record, and back *)

World ==
  [gs |-> gameState, trail |-> playerConfig.trailType,
   player |-> player, target |-> targetPos, enemies |-> enemies,
   powerups |-> powerups, projectiles |-> projectiles, particles |-> particles,
   texts |-> floatingTexts, stats |-> stats, comboTimer |-> comboTimer,
   frameCount |-> frameCount, wtt |-> waveTransitionTimer,
   shake |-> shakeIntensity, out |-> << >>, kills |-> 0,
   delivered |-> hist.delivered, gameOvers |-> 0, rolls |-> NoRolls]

\* variant: every game over overwrites the high score
\* (rejected by C27_HighScoreIsBestScore)
handleGameOverOverwrites(w) ==
  /\ gameState' = "GAME_OVER"
  /\ lastStats' = [set |-> TRUE, live |-> TRUE, val |-> w.stats]
  /\ highScore' = w.delivered.score

\* generateMissionDebrief of services/geminiService.ts: the text for the
\* score read when the delay is over
generateMissionDebrief(score) ==
  IF score < 1000
  THEN "Skor rendah. Kembali ke akademi penerbangan untuk latihan simulasi dasar, Pilot."
  ELSE IF score < 3000
  THEN "Misi selesai. Refleks cukup baik, namun akurasi penembakan perlu ditingkatkan."
  ELSE IF score < 6000
  THEN "Kerja bagus, Pilot. Anda berhasil menahan gelombang serangan musuh dengan efektif."
  ELSE "Luar biasa! Kemampuan tempur kelas Ace. Langit aman di bawah sayapmu."

\* variant: a failed request leaves no text
\* (rejected by C28_GameOverDoesNotWaitForDebrief)
generateMissionDebriefRemoteSilent(outcome) ==
  CASE outcome = "text" -> "response.text"
    [] outcome = "empty" -> "Commander is offline. Static detected."
    [] OTHER -> ""

\* generateMissionDebrief of the remote generator: the response's text, the
\* text that stands for an empty response, or the text of the catch block
generateMissionDebriefRemote(outcome) ==
  CASE outcome = "text" -> "response.text"
    [] outcome = "empty" -> "Commander is offline. Static detected."
    [] OTHER -> "Sistem komunikasi rusak. Kembali ke pangkalan segera."

\* the outcomes of a debrief request
Outcomes == {"static", "text", "empty", "error"}

\* handleGameOver, up to its await: the mode, the stats reference, the high score
handleGameOver(w) ==
  /\ gameState' = "GAME_OVER"
  /\ lastStats' = [set |-> TRUE, live |-> TRUE, val |-> w.stats]
  /\ highScore' = IF w.delivered.score > highScore THEN w.delivered.score ELSE highScore

\* the state after update returned w: the refs, the values the callbacks
\* reported to App, and the observers
Commit(w) ==
  /\ player' = w.player
  /\ targetPos' = w.target
  /\ enemies' = w.enemies
  /\ powerups' = w.powerups
  /\ projectiles' = w.projectiles
  /\ particles' = w.particles
  /\ floatingTexts' = w.texts
  /\ stats' = w.stats
  /\ comboTimer' = w.comboTimer
  /\ frameCount' = w.frameCount
  /\ waveTransitionTimer' = w.wtt
  /\ shakeIntensity' = w.shake
  /\ out' = w.out
  /\ hud' = [score |-> LastArg(w.out, "setScore", hud.score),
             combo |-> LastArg(w.out, "setCombo", hud.combo),
             health |-> LastArg(w.out, "setHealth", hud.health)]
  /\ IF w.gameOvers > 0
     THEN handleGameOver(w)
     ELSE UNCHANGED << gameState, lastStats, highScore >>
  \* every call of handleGameOver goes on to request a debrief of the stats
  /\ debrief' = [debrief EXCEPT !.pending =
                   @ \o Repeat([live |-> TRUE, val |-> w.stats], w.gameOvers)]
  /\ hist' = [hist EXCEPT
       !.ticks = @ + 1,
       !.gameOvers = @ + w.gameOvers,
       !.delivered = w.delivered,
       !.streak = StreakAfter(@, w.out, 1),
       !.sinceKill = IF HasEv(w.out, "playExplosion", "kill") THEN 0
                     ELSE IF @ < 0 THEN @
                     ELSE Min(@ + 1, COMBO_TIMEOUT_FRAMES + 1),
       !.sinceComplete = IF ~w.stats.mission.isComplete THEN -1 ELSE @ + 1,
       !.bossSpawns = IF w.stats.wave # stats.wave THEN 0
                      ELSE @ + Count(w.out, "spawnBoss", "spawn"),
       !.rolls = w.rolls,
       !.lastShot = IF HasEv(w.out, "playShoot", "fire") THEN w.frameCount ELSE @,
       !.shotWith = IF HasEv(w.out, "playShoot", "fire") THEN player.weaponType ELSE @,
       !.sinceAttack = IF Bosses(w.enemies) = 0 \/ Bosses(enemies) = 0 THEN -1
                       ELSE IF HasEv(w.out, "playShoot", "boss") THEN 0
                       ELSE IF @ < 0 THEN @
                       ELSE IF gameState = "PLAYING" /\ ~stats.mission.isComplete
                       THEN @ + 1 ELSE @,
       !.attackPhase = IF HasEv(w.out, "playShoot", "boss")
                       THEN PhaseOf(w.enemies) ELSE @,
       !.touched = hist.pending,
       !.pending = << >>]
  /\ UNCHANGED playerConfig

-----------------------------------------------------------------------------
(* Actions *)

\* one display frame: loop calls update in PLAYING and CUSTOMIZE
Update ==
  /\ gameState \in {"PLAYING", "CUSTOMIZE"}
  /\ hist.ticks < MaxTicks
  /\ LET playing == gameState = "PLAYING" /\ frameCount > 0
         advancing == /\ playing
                      /\ stats.mission.isComplete
                      /\ waveTransitionTimer + 1 > TransitionDelay
         spawns == /\ playing
                   /\ ~stats.mission.isComplete
                   /\ spawnsEnemy([World EXCEPT !.frameCount = @ + 1])
         bossWave == stats.mission.type = "BOSS"
     IN \E tr \in IF spawns THEN TypeRolls ELSE {0},
           xr \in IF spawns THEN XRolls ELSE {0},
           mr \in IF advancing THEN MissionRolls ELSE {0} :
          LET r0 == [type |-> tr, x |-> xr, mission |-> mr, kills |-> << NoDrop >>]
          IN \E dry \in {update(World, r0)} :
               IF dry.kills = 0 THEN Commit([dry EXCEPT !.rolls = r0])
               ELSE \E kr \in KillRollSeqs(dry.kills, bossWave) :
                      \E w \in {update(World, [r0 EXCEPT !.kills = kr])} :
                         Commit([w EXCEPT !.rolls = [r0 EXCEPT !.kills = kr]])

\* variant: the first pointer event after a frame is kept, the later ones
\* are dropped (rejected by C25_TargetIsLastPointerWritten)
handleTouchFirstWins(pos) ==
  /\ hist.pointerEvents < MaxPointerEvents
  /\ frameCount % PointerEvery = 0
  /\ targetPos' = IF gameState = "PLAYING" /\ hist.pending = << >>
                  THEN pos ELSE targetPos
  /\ hist' = [hist EXCEPT !.pointerEvents = @ + 1,
                          !.pending = Append(@, [pos |-> pos, gs |-> gameState])]
  /\ out' = << >>
  /\ UNCHANGED << gameState, playerConfig, hud, highScore, lastStats, player,
                  enemies, powerups, projectiles, particles, floatingTexts,
                  stats, comboTimer, frameCount, waveTransitionTimer,
                  shakeIntensity, debrief >>

\* handleTouch: a pointer or touch event at canvas position pos; the
\* observers keep the events delivered since the last frame
handleTouch(pos) ==
  /\ hist.pointerEvents < MaxPointerEvents
  /\ frameCount % PointerEvery = 0
  /\ targetPos' = IF gameState = "PLAYING" THEN pos ELSE targetPos
  /\ hist' = [hist EXCEPT !.pointerEvents = @ + 1,
                          !.pending = Append(@, [pos |-> pos, gs |-> gameState])]
  /\ out' = << >>
  /\ UNCHANGED << gameState, playerConfig, hud, highScore, lastStats, player,
                  enemies, powerups, projectiles, particles, floatingTexts,
                  stats, comboTimer, frameCount, waveTransitionTimer,
                  shakeIntensity, debrief >>

\* variant: the reset leaves the screen shake running
\* (rejected by C12_MenuResetTotalIdempotent)
resetEffectPartial ==
  /\ player' = [player EXCEPT !.hp = 100, !.weaponType = "BLASTER"]
  /\ enemies' = << >>
  /\ projectiles' = << >>
  /\ particles' = << >>
  /\ powerups' = << >>
  /\ floatingTexts' = << >>
  /\ stats' = FreshStats(Mission("ELIMINATION", 10))
  /\ hud' = [score |-> 0, combo |-> 0, health |-> 100]
  /\ frameCount' = 0
  /\ waveTransitionTimer' = 0
  /\ shakeIntensity' = shakeIntensity
  /\ comboTimer' = 0
  /\ out' = << Ev("setScore", "reset", 0), Ev("setCombo", "reset", 0),
               Ev("setHealth", "reset", 100) >>
  /\ lastStats' = [lastStats EXCEPT !.live = FALSE,
                                    !.val = IF lastStats.live THEN stats ELSE @]

\* the effect that runs when gameState has become MENU
resetEffect ==
  /\ player' = [player EXCEPT !.hp = 100, !.weaponType = "BLASTER"]
  /\ enemies' = << >>
  /\ projectiles' = << >>
  /\ particles' = << >>
  /\ powerups' = << >>
  /\ floatingTexts' = << >>
  /\ stats' = FreshStats(Mission("ELIMINATION", 10))
  /\ hud' = [score |-> 0, combo |-> 0, health |-> 100]
  /\ frameCount' = 0
  /\ waveTransitionTimer' = 0
  /\ shakeIntensity' = 0
  /\ comboTimer' = 0
  /\ out' = << Ev("setScore", "reset", 0), Ev("setCombo", "reset", 0),
               Ev("setHealth", "reset", 100) >>
  \* the receiver of the last game-over event keeps the replaced stats object
  /\ lastStats' = [lastStats EXCEPT !.live = FALSE,
                                    !.val = IF lastStats.live THEN stats ELSE @]

\* handleStart: LAUNCH MISSION in the menu, RETRY SORTIE after a game over
handleStart ==
  /\ gameState \in {"MENU", "GAME_OVER"}
  /\ hist.modeChanges < MaxModeChanges
  /\ gameState' = "PLAYING"
  /\ hud' = [hud EXCEPT !.combo = 0]
  /\ debrief' = [debrief EXCEPT !.text = ""]
  /\ out' = << Ev("setCombo", "start", 0) >>
  /\ hist' = [hist EXCEPT !.modeChanges = @ + 1]
  /\ UNCHANGED << playerConfig, highScore, lastStats, player, targetPos, enemies,
                  powerups, projectiles, particles, floatingTexts, stats,
                  comboTimer, frameCount, waveTransitionTimer, shakeIntensity >>

\* the HANGAR button of the menu
openCustomize ==
  /\ gameState = "MENU"
  /\ hist.modeChanges < MaxModeChanges
  /\ gameState' = "CUSTOMIZE"
  /\ out' = << >>
  /\ hist' = [hist EXCEPT !.modeChanges = @ + 1]
  /\ UNCHANGED << playerConfig, hud, highScore, lastStats, player, targetPos,
                  enemies, powerups, projectiles, particles, floatingTexts,
                  stats, comboTimer, frameCount, waveTransitionTimer,
                  shakeIntensity, debrief >>

\* a PROPULSION CORE button of the hangar
setTrail(t) ==
  /\ gameState = "CUSTOMIZE"
  /\ hist.loadoutChanges < MaxLoadoutChanges
  /\ playerConfig' = [playerConfig EXCEPT !.trailType = t]
  /\ out' = << >>
  /\ hist' = [hist EXCEPT !.loadoutChanges = @ + 1]
  /\ UNCHANGED << gameState, hud, highScore, lastStats, player, targetPos,
                  enemies, powerups, projectiles, particles, floatingTexts,
                  stats, comboTimer, frameCount, waveTransitionTimer,
                  shakeIntensity, debrief >>

\* a HULL COATING button of the hangar, and the effect that copies the
\* colour to the ship
setColor(c) ==
  /\ gameState = "CUSTOMIZE"
  /\ hist.loadoutChanges < MaxLoadoutChanges
  /\ playerConfig' = [playerConfig EXCEPT !.color = c]
  /\ player' = [player EXCEPT !.color = c]
  /\ out' = << >>
  /\ hist' = [hist EXCEPT !.loadoutChanges = @ + 1]
  /\ UNCHANGED << gameState, hud, highScore, lastStats, targetPos,
                  enemies, powerups, projectiles, particles, floatingTexts,
                  stats, comboTimer, frameCount, waveTransitionTimer,
                  shakeIntensity, debrief >>

\* CONFIRM LOADOUT in the hangar, RETURN TO BASE after a game over
returnToMenu ==
  /\ gameState \in {"CUSTOMIZE", "GAME_OVER"}
  /\ hist.modeChanges < MaxModeChanges
  /\ gameState' = "MENU"
  /\ resetEffect
  /\ hist' = [hist EXCEPT !.modeChanges = @ + 1, !.gameOvers = 0, !.streak = 0,
                          !.sinceKill = -1, !.sinceComplete = -1,
                          !.lastShot = -1, !.sinceAttack = -1,
                          !.bossSpawns = 0]
  \* a request not yet answered keeps the replaced stats object
  /\ debrief' = [debrief EXCEPT !.pending =
                   [i \in 1..Len(@) |-> [live |-> FALSE,
                                         val |-> IF @[i].live THEN stats ELSE @[i].val]]]
  /\ UNCHANGED << playerConfig, highScore, targetPos >>

\* the answer of the debrief generator to the oldest request, and the
\* setDebrief that follows handleGameOver's await; outcome tells the static
\* generator from the remote one, whose request returns a text, returns none
\* or fails
debriefArrives(outcome) ==
  /\ Len(debrief.pending) > 0
  /\ LET req == debrief.pending[1]
         score == IF req.live THEN stats.score ELSE req.val.score
         text == IF outcome = "static" THEN generateMissionDebrief(score)
                 ELSE generateMissionDebriefRemote(outcome)
     IN /\ debrief' = [text |-> text, pending |-> Tail(debrief.pending)]
        /\ out' = << Ev("setDebrief", outcome, text) >>
  /\ UNCHANGED << gameState, playerConfig, hud, highScore, lastStats, player,
                  targetPos, enemies, powerups, projectiles, particles,
                  floatingTexts, stats, comboTimer, frameCount,
                  waveTransitionTimer, shakeIntensity, hist >>

-----------------------------------------------------------------------------
(* Initial states *)

\* The run in progress a behaviour starts from is described by what persists
\* of its past: the stats, the player's hp, the frame counter and the pointer.
\* Everything else in the world is younger than QuietFrames frames (an enemy
\* crosses the screen, a powerup falls, a particle fades within that time), so
\* the world after QuietFrames frames in which the player stood still and every
\* enemy came down the leftmost column, clear of the ship, is computed by
\* running update itself that many times.

QuietFrames == (H + 150 * Scale) \div (2 * Scale + Scale \div 10) + 2

QuietRoll == [type |-> 50, x |-> 0, mission |-> 0, kills |-> << NoDrop >>]

RECURSIVE Run(_, _)
Run(w, n) ==
  IF n = 0 THEN w
  ELSE IF n = 1 THEN update(w, QuietRoll)
  ELSE Bind(Run(w, n \div 2), LAMBDA half : Run(half, n - n \div 2))

\* the ship at rest under pointer position t
RestAt(t) ==
  [x |-> Max(0, Min(W - PSize, t.x - PSize \div 2)),
   y |-> Max(0, Min(H - PSize, t.y - PSize - 20 * Scale))]

\* the hull colours of the hangar; the first is the loadout App starts with
DefaultColor == "#3b82f6"
Colors == {DefaultColor, "#ef4444"}

\* a world holding nothing but the ship, in PLAYING
Blank(frame, hp, target, st) ==
  [gs |-> "PLAYING", trail |-> "standard",
   player |-> [x |-> RestAt(target).x, y |-> RestAt(target).y, hp |-> hp,
               weaponType |-> "BLASTER", color |-> DefaultColor],
   target |-> target, enemies |-> << >>, powerups |-> << >>,
   projectiles |-> << >>, particles |-> << >>, texts |-> << >>, stats |-> st,
   comboTimer |-> 0, frameCount |-> frame, wtt |-> 0, shake |-> 0,
   out |-> << >>, kills |-> 0, delivered |-> st, gameOvers |-> 0,
   rolls |-> NoRolls]

\* the world w flown with another loadout
Fitted(w, trail, color) == [w EXCEPT !.trail = trail, !.player.color = color]

\* the world at frame `frame` of a run whose last QuietFrames frames were quiet
Quiet(frame, hp, target, st) ==
  Run(Blank(frame - QuietFrames, hp, target, st), QuietFrames)

\* wave 1, ELIMINATION: `kills` enemies shot (each after the combo had run
\* out: 110 points) and `rams` enemies rammed, BLASTER throughout
Wave1Stats(kills, rams, frame) ==
  [score |-> 110 * kills, wave |-> 1, enemiesDestroyed |-> kills,
   shotsFired |-> frame \div BASE_SHOOT_COOLDOWN,
   combo |-> 0, maxCombo |-> IF kills > 0 THEN 1 ELSE 0,
   mission |-> [Mission("ELIMINATION", 12) EXCEPT !.currentValue = kills + rams]]

\* the pointer positions the runs in progress rest at: near the top right,
\* and in the middle, the ship just below a boss at its station
TopRight == [x |-> 80 * Scale, y |-> 100 * Scale]
UnderBoss == [x |-> 50 * Scale, y |-> 225 * Scale]
BottomLeft == [x |-> 20 * Scale, y |-> H + 20 * Scale]

\* the boss wave 5 opens after four waves: 57 enemies shot, 3 rammed
Wave5Stats(frame) ==
  [score |-> 110 * 57, wave |-> 5, enemiesDestroyed |-> 57,
   shotsFired |-> frame \div BASE_SHOOT_COOLDOWN,
   combo |-> 0, maxCombo |-> 1, mission |-> initMission(5, 0)]

\* the SURVIVAL wave 3 opens after two waves: 26 enemies shot; the mission
\* has counted cv frames
Wave3Stats(frame, cv) ==
  [score |-> 110 * 26, wave |-> 3, enemiesDestroyed |-> 26,
   shotsFired |-> frame \div BASE_SHOOT_COOLDOWN,
   combo |-> 0, maxCombo |-> 1,
   mission |-> [initMission(3, 80) EXCEPT !.currentValue = cv]]

\* wave 5 late in the fight: the boss on station for ten frames with hp hit
\* points left of its 1250
BossFight(frame, hp) ==
  Run([Run(Blank(frame - 130, 100, UnderBoss, Wave5Stats(frame - 130)), 120)
       EXCEPT !.enemies[1].hp = hp],
      10)

\* the boss wave 10 opens after nine waves: 150 enemies shot
Wave10Stats(frame) ==
  [score |-> 110 * 150, wave |-> 10, enemiesDestroyed |-> 150,
   shotsFired |-> frame \div BASE_SHOOT_COOLDOWN,
   combo |-> 0, maxCombo |-> 1, mission |-> initMission(10, 0)]

\* the frame of the last shot of a world flown with the BLASTER throughout
LastShot(w) ==
  IF w.frameCount < BASE_SHOOT_COOLDOWN THEN -1
  ELSE (w.frameCount \div BASE_SHOOT_COOLDOWN) * BASE_SHOOT_COOLDOWN

\* the runs in progress: the frame counter is one short of a spawn frame
Seeds ==
  { [name |-> "construction", ticks |-> MaxTicks - 40],
    [name |-> "lastKill", ticks |-> 0],
    [name |-> "lastLife", ticks |-> MaxTicks - 85],
    [name |-> "bossVolley", ticks |-> MaxTicks - 20],
    [name |-> "survival", ticks |-> MaxTicks - 50],
    [name |-> "bossKill", ticks |-> MaxTicks - 20],
    [name |-> "bossEntry5", ticks |-> MaxTicks - 6],
    [name |-> "bossEntry10", ticks |-> MaxTicks - 6] }

SeedWorld(sd) ==
  CASE sd.name = "lastKill" ->
         Quiet(58 * 40 - 1, 100, TopRight, Wave1Stats(11, 0, 58 * 40 - 1))
    [] sd.name = "lastLife" ->
         Quiet(60 * 20 - 1, 20, TopRight, Wave1Stats(0, 4, 60 * 20 - 1))
    \* wave 5 from its first frame to just before the boss's second volley
    [] sd.name = "bossVolley" ->
         Run(Blank(4400, 40, UnderBoss, Wave5Stats(4400)), 2 * 81 - 7)
    \* wave 3, forty frames before the SURVIVAL mission's 36 seconds are over
    \* (flown with the turbo trail and the crimson hull)
    [] sd.name = "survival" ->
         Run(Fitted(Blank(33 * 200 - 1 - QuietFrames, 100, TopRight,
                          Wave3Stats(33 * 200 - 1, 36 * 60 - 40 - QuietFrames)),
                    "turbo", "#ef4444"),
             QuietFrames)
    [] sd.name = "bossKill" -> BossFight(23000, 2)
    \* the boss waves 5 and 10 as the wave advance left them
    [] sd.name = "bossEntry5" -> Blank(4400, 100, UnderBoss, Wave5Stats(4400))
    [] sd.name = "bossEntry10" ->
         Fitted(Blank(9000, 100, UnderBoss, Wave10Stats(9000)), "plasma", DefaultColor)
    [] OTHER ->
         [Blank(0, 100, [x |-> 0, y |-> 0], FreshStats(Mission("ELIMINATION", 10)))
          EXCEPT !.gs = "MENU", !.player.x = 0, !.player.y = 0]

\* the high score read from storage at startup: none, or the 1210 of an
\* earlier game
StoredHighScore(sd) == IF sd.name = "lastLife" THEN 1210 ELSE 0

Init ==
  \E sd \in Seeds :
    \E w \in {SeedWorld(sd)} :
       /\ gameState = w.gs
       /\ playerConfig = [trailType |-> w.trail, color |-> w.player.color]
       /\ hud = [score |-> w.stats.score, combo |-> w.stats.combo,
                 health |-> w.player.hp]
       /\ highScore = StoredHighScore(sd)
       /\ lastStats = [set |-> FALSE, live |-> FALSE, val |-> w.stats]
       /\ player = w.player
       /\ targetPos = w.target
       /\ enemies = w.enemies
       /\ powerups = w.powerups
       /\ projectiles = w.projectiles
       /\ particles = w.particles
       /\ floatingTexts = w.texts
       /\ stats = w.stats
       /\ comboTimer = w.comboTimer
       /\ frameCount = w.frameCount
       /\ waveTransitionTimer = w.wtt
       /\ shakeIntensity = w.shake
       /\ out = << >>
       /\ debrief = [text |-> "", pending |-> << >>]
       /\ hist = [ticks |-> sd.ticks, pointerEvents |-> 0, modeChanges |-> 0,
                  loadoutChanges |-> 0,
                  gameOvers |-> 0, delivered |-> w.stats, streak |-> 0,
                  sinceKill |-> -1, sinceComplete |-> -1,
                  \* the boss of a seed's wave was spawned on the way to the seed
                  bossSpawns |-> Bosses(w.enemies),
                  pending |-> << >>, touched |-> << >>, rolls |-> NoRolls,
                  lastShot |-> LastShot(w), shotWith |-> "BLASTER",
                  sinceAttack |-> SinceAttack(w.enemies),
                  attackPhase |-> PhaseOf(w.enemies)]

\* the pointer positions delivered: one on the canvas, one outside it
Pointers == { [x |-> 80 * Scale, y |-> 100 * Scale], [x |-> -30 * Scale, y |-> H + 500 * Scale] }

Trails == {"standard", "plasma", "turbo"}

Next ==
  \/ Update
  \/ \E pos \in Pointers : handleTouch(pos)
  \/ handleStart
  \/ openCustomize
  \/ \E t \in Trails : setTrail(t)
  \/ \E c \in Colors : setColor(c)
  \/ returnToMenu

Spec == Init /\ [][Next]_vars

-----------------------------------------------------------------------------
(* The missions of the waves: runs that start at the end of a wave *)

\* the stats when wave v is complete: twelve kills a wave, each after the
\* combo had run out; rand chose the wave's mission
WaveEndStats(v, rand) ==
  LET m == initMission(v, rand)
  IN [score |-> 110 * 12 * v, wave |-> v, enemiesDestroyed |-> 12 * v,
      shotsFired |-> (3600 * v) \div BASE_SHOOT_COOLDOWN,
      combo |-> 0, maxCombo |-> 1,
      mission |-> [m EXCEPT !.isComplete = TRUE,
                            !.currentValue = IF m.type = "SURVIVAL"
                                             THEN 60 * m.targetValue
                                             ELSE m.targetValue]]

\* the last frame but one of wave v's transition delay; wave 0 stands for
\* the game just started from the menu, before its first frame
WaveEnd(v, rand) ==
  IF v = 0
  THEN [Blank(0, 100, [x |-> 0, y |-> 0], FreshStats(Mission("ELIMINATION", 10)))
        EXCEPT !.player.x = 0, !.player.y = 0]
  ELSE [Blank(3600 * v - 1, 100, TopRight, WaveEndStats(v, rand))
        EXCEPT !.wtt = TransitionDelay]

MissionInit ==
  \E v \in 0..MaxWave, rand \in MissionRolls :
    \E w \in {WaveEnd(v, rand)} :
       /\ gameState = w.gs
       /\ playerConfig = [trailType |-> w.trail, color |-> w.player.color]
       /\ hud = [score |-> w.stats.score, combo |-> w.stats.combo,
                 health |-> w.player.hp]
       /\ highScore = 0
       /\ lastStats = [set |-> FALSE, live |-> FALSE, val |-> w.stats]
       /\ player = w.player
       /\ targetPos = w.target
       /\ enemies = w.enemies
       /\ powerups = w.powerups
       /\ projectiles = w.projectiles
       /\ particles = w.particles
       /\ floatingTexts = w.texts
       /\ stats = w.stats
       /\ comboTimer = w.comboTimer
       /\ frameCount = w.frameCount
       /\ waveTransitionTimer = w.wtt
       /\ shakeIntensity = w.shake
       /\ out = << >>
       /\ debrief = [text |-> "", pending |-> << >>]
       /\ hist = [ticks |-> MaxTicks - MissionFrames, pointerEvents |-> 0,
                  modeChanges |-> 0, loadoutChanges |-> 0,
                  gameOvers |-> 0, delivered |-> w.stats, streak |-> 0,
                  sinceKill |-> -1,
                  sinceComplete |-> IF w.stats.mission.isComplete
                                    THEN TransitionDelay ELSE -1,
                  bossSpawns |-> 0, pending |-> << >>, touched |-> << >>, rolls |-> NoRolls,
                  lastShot |-> LastShot(w), shotWith |-> "BLASTER",
                  sinceAttack |-> SinceAttack(w.enemies),
                  attackPhase |-> PhaseOf(w.enemies)]

MissionNext ==
  \/ Update
  \/ \E pos \in Pointers : handleTouch(pos)

MissionSpec == MissionInit /\ [][MissionNext]_vars

-----------------------------------------------------------------------------
(* The pointer: runs in which a burst of pointer events precedes the frames *)

\* a game in progress at a frame on which the pointer is sampled, and the
\* menu before a game
PointerSeeds == {"playing", "menu"}

PointerWorld(name) ==
  IF name = "playing"
  THEN Quiet(PointerEvery * 40, 100, TopRight, Wave1Stats(0, 0, PointerEvery * 40))
  ELSE [Blank(0, 100, [x |-> 0, y |-> 0], FreshStats(Mission("ELIMINATION", 10)))
        EXCEPT !.gs = "MENU", !.player.x = 0, !.player.y = 0]

PointerInit ==
  \E name \in PointerSeeds :
    \E w \in {PointerWorld(name)} :
       /\ gameState = w.gs
       /\ playerConfig = [trailType |-> w.trail, color |-> w.player.color]
       /\ hud = [score |-> w.stats.score, combo |-> w.stats.combo,
                 health |-> w.player.hp]
       /\ highScore = 0
       /\ lastStats = [set |-> FALSE, live |-> FALSE, val |-> w.stats]
       /\ player = w.player
       /\ targetPos = w.target
       /\ enemies = w.enemies
       /\ powerups = w.powerups
       /\ projectiles = w.projectiles
       /\ particles = w.particles
       /\ floatingTexts = w.texts
       /\ stats = w.stats
       /\ comboTimer = w.comboTimer
       /\ frameCount = w.frameCount
       /\ waveTransitionTimer = w.wtt
       /\ shakeIntensity = w.shake
       /\ out = << >>
       /\ debrief = [text |-> "", pending |-> << >>]
       \* PointerBurst events and PointerFrames frames are still to come
       /\ hist = [ticks |-> MaxTicks - PointerFrames,
                  pointerEvents |-> MaxPointerEvents - PointerBurst,
                  modeChanges |-> 0, loadoutChanges |-> 0,
                  gameOvers |-> 0, delivered |-> w.stats, streak |-> 0,
                  sinceKill |-> -1, sinceComplete |-> -1,
                  bossSpawns |-> 0, pending |-> << >>, touched |-> << >>, rolls |-> NoRolls,
                  lastShot |-> LastShot(w), shotWith |-> "BLASTER",
                  sinceAttack |-> SinceAttack(w.enemies),
                  attackPhase |-> PhaseOf(w.enemies)]

PointerNext ==
  \/ Update
  \/ \E pos \in Pointers : handleTouch(pos)
  \/ handleStart
  \/ openCustomize
  \/ returnToMenu

PointerSpec == PointerInit /\ [][PointerNext]_vars

-----------------------------------------------------------------------------
(* The debrief: runs that end in a game over, with the generator's answers *)

\* the games about to be lost
DebriefSeeds == {"lastLife", "bossVolley"}

DebriefInit ==
  \E name \in DebriefSeeds :
    \E sd \in {[name |-> name, ticks |-> MaxTicks - DebriefFrames]} :
      \E w \in {SeedWorld(sd)} :
       /\ gameState = w.gs
       /\ playerConfig = [trailType |-> w.trail, color |-> w.player.color]
       /\ hud = [score |-> w.stats.score, combo |-> w.stats.combo,
                 health |-> w.player.hp]
       /\ highScore = StoredHighScore(sd)
       /\ lastStats = [set |-> FALSE, live |-> FALSE, val |-> w.stats]
       /\ player = w.player
       /\ targetPos = w.target
       /\ enemies = w.enemies
       /\ powerups = w.powerups
       /\ projectiles = w.projectiles
       /\ particles = w.particles
       /\ floatingTexts = w.texts
       /\ stats = w.stats
       /\ comboTimer = w.comboTimer
       /\ frameCount = w.frameCount
       /\ waveTransitionTimer = w.wtt
       /\ shakeIntensity = w.shake
       /\ out = << >>
       /\ debrief = [text |-> "", pending |-> << >>]
       /\ hist = [ticks |-> sd.ticks, pointerEvents |-> 0, modeChanges |-> 0,
                  loadoutChanges |-> 0,
                  gameOvers |-> 0, delivered |-> w.stats, streak |-> 0,
                  sinceKill |-> -1, sinceComplete |-> -1,
                  bossSpawns |-> Bosses(w.enemies),
                  pending |-> << >>, touched |-> << >>, rolls |-> NoRolls,
                  lastShot |-> LastShot(w), shotWith |-> "BLASTER",
                  sinceAttack |-> SinceAttack(w.enemies),
                  attackPhase |-> PhaseOf(w.enemies)]

DebriefNext ==
  \/ Update
  \/ handleStart
  \/ returnToMenu
  \/ \E outcome \in Outcomes : debriefArrives(outcome)

DebriefSpec == DebriefInit /\ [][DebriefNext]_vars

-----------------------------------------------------------------------------
(* The streak: runs that start in the middle of a kill streak *)

\* the streaks the runs start from: the next kill is the thirteenth, or the
\* twentieth
StreakLens == {12, 19}

\* the score of a streak of n kills of basic enemies
RECURSIVE StreakScore(_)
StreakScore(n) == IF n = 0 THEN 0 ELSE StreakScore(n - 1) + killScore(100, n)

\* wave 3, SURVIVAL, twenty seconds in: 26 enemies shot in the waves before
\* and n in a row in this one
StreakStats(n, frame) ==
  [score |-> 110 * 26 + StreakScore(n), wave |-> 3, enemiesDestroyed |-> 26 + n,
   shotsFired |-> frame \div BASE_SHOOT_COOLDOWN,
   combo |-> n, maxCombo |-> n,
   mission |-> [initMission(3, 80) EXCEPT !.currentValue = 20 * 60]]

\* the frame before a spawn frame, the field empty since the last kill and
\* the combo timer running
StreakWorld(n) ==
  LET every == spawnRate(110 * 26 + StreakScore(n), "SURVIVAL")
      frame == every * 210 - 1
  IN Run([Blank(frame - BASE_SHOOT_COOLDOWN, 100, TopRight,
                StreakStats(n, frame - BASE_SHOOT_COOLDOWN))
          EXCEPT !.comboTimer = COMBO_TIMEOUT_FRAMES - 5],
         BASE_SHOOT_COOLDOWN)

StreakInit ==
  \E n \in StreakLens :
    \E w \in {StreakWorld(n)} :
       /\ gameState = w.gs
       /\ playerConfig = [trailType |-> w.trail, color |-> w.player.color]
       /\ hud = [score |-> w.stats.score, combo |-> w.stats.combo,
                 health |-> w.player.hp]
       /\ highScore = 0
       /\ lastStats = [set |-> FALSE, live |-> FALSE, val |-> w.stats]
       /\ player = w.player
       /\ targetPos = w.target
       /\ enemies = w.enemies
       /\ powerups = w.powerups
       /\ projectiles = w.projectiles
       /\ particles = w.particles
       /\ floatingTexts = w.texts
       /\ stats = w.stats
       /\ comboTimer = w.comboTimer
       /\ frameCount = w.frameCount
       /\ waveTransitionTimer = w.wtt
       /\ shakeIntensity = w.shake
       /\ out = << >>
       /\ debrief = [text |-> "", pending |-> << >>]
       /\ hist = [ticks |-> MaxTicks - StreakFrames, pointerEvents |-> 0,
                  modeChanges |-> 0, loadoutChanges |-> 0,
                  gameOvers |-> 0, delivered |-> w.stats, streak |-> n,
                  sinceKill |-> COMBO_TIMEOUT_FRAMES - w.comboTimer,
                  sinceComplete |-> -1,
                  bossSpawns |-> 0, pending |-> << >>, touched |-> << >>,
                  rolls |-> NoRolls,
                  lastShot |-> LastShot(w), shotWith |-> "BLASTER",
                  sinceAttack |-> SinceAttack(w.enemies),
                  attackPhase |-> PhaseOf(w.enemies)]

StreakNext == Update

StreakSpec == StreakInit /\ [][StreakNext]_vars

-----------------------------------------------------------------------------
(* The boss: runs of a boss wave, from the boss's arrival and from its second
   phase *)

BossSeeds == {"entry", "phase2", "corner"}

\* wave 5 as the wave advance left it, and wave 5 with the boss on station
\* and 600 of its 1250 hit points left: 39 frames after its first attack,
\* 42 frames before a frame that samples the pointer
BossWorld(name) ==
  IF name = "entry" THEN Blank(4400, 100, UnderBoss, Wave5Stats(4400))
  ELSE IF name = "phase2"
  THEN [Run(Blank(14118 - 120, 100, UnderBoss, Wave5Stats(14118 - 120)), 120)
        EXCEPT !.enemies[1].hp = 600]
  \* the same with the ship at rest in the bottom left corner
  ELSE [Run(Blank(14118 - 120, 100, BottomLeft, Wave5Stats(14118 - 120)), 120)
        EXCEPT !.enemies[1].hp = 600]

\* the pointer positions of a boss run: one that takes the ship, in one
\* frame, to where its centre is the boss's muzzle point, and one far above
\* the canvas that takes the ship from the bottom left corner, in one frame,
\* to the height of the muzzle and on to the top
AimPointers == { [x |-> 8054, y |-> 5833], [x |-> 2000, y |-> -25334] }

BossInit ==
  \E name \in BossSeeds :
    \E w \in {BossWorld(name)} :
       /\ gameState = w.gs
       /\ playerConfig = [trailType |-> w.trail, color |-> w.player.color]
       /\ hud = [score |-> w.stats.score, combo |-> w.stats.combo,
                 health |-> w.player.hp]
       /\ highScore = 0
       /\ lastStats = [set |-> FALSE, live |-> FALSE, val |-> w.stats]
       /\ player = w.player
       /\ targetPos = w.target
       /\ enemies = w.enemies
       /\ powerups = w.powerups
       /\ projectiles = w.projectiles
       /\ particles = w.particles
       /\ floatingTexts = w.texts
       /\ stats = w.stats
       /\ comboTimer = w.comboTimer
       /\ frameCount = w.frameCount
       /\ waveTransitionTimer = w.wtt
       /\ shakeIntensity = w.shake
       /\ out = << >>
       /\ debrief = [text |-> "", pending |-> << >>]
       /\ hist = [ticks |-> MaxTicks - BossFrames, pointerEvents |-> 0,
                  modeChanges |-> 0, loadoutChanges |-> 0,
                  gameOvers |-> 0, delivered |-> w.stats, streak |-> 0,
                  sinceKill |-> -1, sinceComplete |-> -1,
                  bossSpawns |-> Bosses(w.enemies),
                  pending |-> << >>, touched |-> << >>, rolls |-> NoRolls,
                  lastShot |-> LastShot(w), shotWith |-> "BLASTER",
                  sinceAttack |-> SinceAttack(w.enemies),
                  attackPhase |-> PhaseOf(w.enemies)]

BossNext ==
  \/ Update
  \/ \E pos \in AimPointers : handleTouch(pos)

BossSpec == BossInit /\ [][BossNext]_vars

-----------------------------------------------------------------------------
(* Properties *)

\* the step is an update frame
Frame == hist'.ticks = hist.ticks + 1

\* the step is a frame of the transition delay: PLAYING, the mission complete
\* when the frame starts
TransitionStep == Frame /\ gameState = "PLAYING" /\ stats.mission.isComplete

\* the player was damaged in the last step
Damaged == \E i \in 1..Len(out) : IsDamage(out[i])

\* the lives ps after one decay step
Decayed(ps) ==
  SelectSeq([i \in 1..Len(ps) |-> ps[i] - LifeDecay], LAMBDA l : l > 0)

\* C1 (as claimed): since the last reset of hp to 100, onGameOver has been
\* called exactly once if the player's hp has become <= 0, and not at all
\* otherwise.
C1_GameOverOncePerLife == hist.gameOvers = IF player.hp <= 0 THEN 1 ELSE 0

\* C2 (as claimed): every value reported through setHealth lies in 0..100.
C2_HealthInRange ==
  \A i \in 1..Len(out) : out[i].cb = "setHealth" => out[i].v \in 0..100

\* C3 (as claimed): in an ELIMINATION wave, after every step isComplete is
\* true exactly if currentValue has reached the target.
C3_CompleteWhenTargetReached ==
  stats.mission.type = "ELIMINATION" =>
    (stats.mission.isComplete <=>
       stats.mission.currentValue >= stats.mission.targetValue)

\* C3 (amended): in an ELIMINATION wave isComplete is never true while
\* currentValue is below the target; it becomes true in the first PLAYING
\* frame that starts with currentValue at or above the target (the frame
\* after the one whose kill or ram reached it), and neither isComplete nor
\* currentValue goes down in a frame that does not advance the wave.
C3_CompleteInNextMissionUpdate ==
  /\ [](stats.mission.type = "ELIMINATION" /\ stats.mission.isComplete =>
          stats.mission.currentValue >= stats.mission.targetValue)
  /\ [][Frame /\ stats.mission.type = "ELIMINATION" /\ stats'.wave = stats.wave =>
          /\ stats'.mission.isComplete <=>
               \/ stats.mission.isComplete
               \/ /\ gameState = "PLAYING"
                  /\ stats.mission.currentValue >= stats.mission.targetValue
          /\ stats'.mission.currentValue >= stats.mission.currentValue]_vars

\* C3 witness: an ELIMINATION mission has just been marked complete.
C3_Witness ==
  /\ stats.mission.type = "ELIMINATION"
  /\ stats.mission.isComplete
  /\ hist.sinceComplete = 0

\* C4 (as claimed): the frame exactly 120 frames after the step that set
\* isComplete increments the wave and installs a new mission.
C4_WaveAdvancesAfter120 ==
  [][TransitionStep /\ hist.sinceComplete = 120 - 1 =>
       /\ stats'.wave = stats.wave + 1
       /\ stats'.mission.currentValue = 0
       /\ ~stats'.mission.isComplete]_vars

\* C4 (amended): the frame exactly 121 frames after the step that set
\* isComplete increments the wave by 1 and installs a new mission
\* (currentValue 0, isComplete false); no frame before it changes the wave
\* or clears isComplete.
C4_WaveAdvancesAfter121 ==
  [][Frame =>
       IF gameState = "PLAYING" /\ stats.mission.isComplete
            /\ hist.sinceComplete = 120
       THEN /\ stats'.wave = stats.wave + 1
            /\ stats'.mission.currentValue = 0
            /\ ~stats'.mission.isComplete
       ELSE /\ stats'.wave = stats.wave
            /\ stats.mission.isComplete => stats'.mission.isComplete]_vars

\* C4 witness: wave 1 has been completed and wave 2 has just begun.
C4_Witness ==
  /\ stats.wave = 2
  /\ stats.mission.currentValue = 0
  /\ ~stats.mission.isComplete
  /\ waveTransitionTimer = 0

\* C5 (as claimed): a frame of the transition delay leaves the player, the
\* enemies, the projectiles, the powerups, the score, enemiesDestroyed,
\* shotsFired and the mission's currentValue unchanged.
C5_TransitionChangesNothing ==
  [][TransitionStep =>
       /\ player' = player
       /\ enemies' = enemies
       /\ projectiles' = projectiles
       /\ powerups' = powerups
       /\ stats'.score = stats.score
       /\ stats'.enemiesDestroyed = stats.enemiesDestroyed
       /\ stats'.shotsFired = stats.shotsFired
       /\ stats'.mission.currentValue = stats.mission.currentValue]_vars

\* C5 (amended): a frame of the transition delay leaves the player, the
\* powerups, the score, enemiesDestroyed and shotsFired unchanged; unless it
\* is the frame that advances the wave it also leaves every enemy, every
\* projectile and the mission's currentValue unchanged; the frame that
\* advances the wave removes all enemies and projectiles and starts the new
\* mission at currentValue 0.
C5_TransitionFreezes ==
  [][TransitionStep =>
       /\ player' = player
       /\ powerups' = powerups
       /\ stats'.score = stats.score
       /\ stats'.enemiesDestroyed = stats.enemiesDestroyed
       /\ stats'.shotsFired = stats.shotsFired
       /\ IF stats'.wave = stats.wave
          THEN /\ enemies' = enemies
               /\ projectiles' = projectiles
               /\ stats'.mission.currentValue = stats.mission.currentValue
          ELSE /\ enemies' = << >>
               /\ projectiles' = << >>
               /\ stats'.mission.currentValue = 0]_vars

\* C5 witness: a transition frame has run with enemies and projectiles on
\* the screen.
C5_Witness ==
  /\ gameState = "PLAYING"
  /\ stats.mission.isComplete
  /\ waveTransitionTimer > 1
  /\ Len(enemies) > 0
  /\ Len(projectiles) > 0

\* C6 (as claimed): in a frame of the transition delay every particle's life
\* decreases by the fixed decrement and the particles whose life is <= 0 are
\* removed.
C6_ParticlesDecayInTransition ==
  [][TransitionStep => particles' = Decayed(particles)]_vars

\* C7: the combo is the number of kills by player projectiles since the last
\* player-damage event or combo timeout, the value last reported through
\* setCombo is the combo, and maxCombo is at least the combo.
C7_ComboCountsKills ==
  /\ stats.combo = hist.streak
  /\ hud.combo = stats.combo
  /\ stats.maxCombo >= hist.streak

\* C7 witness: a kill has just extended a streak to two or more.
C7_Witness ==
  /\ HasEv(out, "setCombo", "kill")
  /\ hist.streak >= 2

\* C8: after a frame in which the player took damage the combo is 0, the
\* value last reported through setCombo is 0, and setCombo(0) was reported in
\* that frame.
C8_DamageBreaksCombo ==
  Damaged =>
    /\ stats.combo = 0
    /\ hud.combo = 0
    /\ \E i \in 1..Len(out) : out[i].cb = "setCombo" /\ out[i].v = 0

\* C8 witness: the player took damage while a kill's combo timeout was running.
C8_Witness == Damaged /\ comboTimer > 0

\* C9: for 119 frames after a kill the combo timer shows what is left of the
\* 120 frames (a kill restarts it, every update frame counts it down, the
\* frames of the transition delay included); the 120th frame after the last
\* kill reports setCombo(0) and, unless it scores a kill itself, leaves the
\* combo at 0; no other frame reports a timeout.
C9_ComboTimeout ==
  /\ [](hist.sinceKill \in 0..119 => comboTimer = 120 - hist.sinceKill)
  /\ [][Frame =>
          /\ hist.sinceKill = 119 =>
               /\ HasEv(out', "setCombo", "decay")
               /\ ~HasEv(out', "playExplosion", "kill") =>
                    stats'.combo = 0 /\ hud'.combo = 0
          /\ HasEv(out', "setCombo", "decay") => hist.sinceKill = 119]_vars

\* C9 witness: the combo timed out in a frame of the transition delay.
C9_Witness ==
  /\ HasEv(out, "setCombo", "decay")
  /\ gameState = "PLAYING"
  /\ stats.mission.isComplete
  /\ hist.sinceKill = 120

\* C10 (as claimed): the GameStats the receiver of the game-over event holds
\* are the stats as they were when onGameOver was called.
C10_DeliveredStatsAreSnapshot ==
  lastStats.set =>
    (IF lastStats.live THEN stats ELSE lastStats.val) = hist.delivered

\* the values a, reported one after the other, never go below the one
\* reported before them; v is the value reported last before a
NeverBelowPrevious(v, a) ==
  \A i \in 1..Len(a) : a[i] >= (IF i = 1 THEN v ELSE a[i - 1])

\* the step is the MENU reset
MenuReset == gameState # "MENU" /\ gameState' = "MENU"

\* C11: in every step but the MENU reset the score does not decrease, and
\* every value the step reports through setScore is at least the value
\* reported before it.
C11_ScoreNeverDecreases ==
  [][~MenuReset =>
       /\ stats'.score >= stats.score
       /\ NeverBelowPrevious(hud.score, Args(out', "setScore"))]_vars

\* C11 witness: a kill has just raised the score and reported it.
C11_Witness ==
  /\ HasEv(out, "setScore", "kill")
  /\ hud.score = stats.score
  /\ stats.score > 0

\* the state the MENU reset is to leave
ResetState ==
  /\ enemies = << >> /\ projectiles = << >> /\ particles = << >>
  /\ powerups = << >> /\ floatingTexts = << >>
  /\ stats.score = 0 /\ stats.wave = 1 /\ stats.combo = 0 /\ stats.maxCombo = 0
  /\ stats.enemiesDestroyed = 0 /\ stats.shotsFired = 0
  /\ ~stats.mission.isComplete
  /\ player.hp = 100 /\ player.weaponType = "BLASTER"
  /\ frameCount = 0 /\ comboTimer = 0 /\ waveTransitionTimer = 0
  /\ shakeIntensity = 0

\* C12: the MENU reset leaves the collections empty, the stats, the player's
\* hp and weapon, the counters and the timers at their initial values and the
\* mission incomplete, whatever the state it starts from; applied to a state
\* it has left, it changes nothing of the game; and the game stays in that
\* state as long as it is in MENU.
C12_MenuResetTotalIdempotent ==
  /\ [](gameState = "MENU" => ResetState)
  /\ [][MenuReset =>
          /\ ResetState'
          /\ ResetState =>
               << player, targetPos, enemies, powerups, projectiles, particles,
                  floatingTexts, stats, comboTimer, frameCount,
                  waveTransitionTimer, shakeIntensity, hud, playerConfig >>'
               = << player, targetPos, enemies, powerups, projectiles, particles,
                    floatingTexts, stats, comboTimer, frameCount,
                    waveTransitionTimer, shakeIntensity, hud, playerConfig >>]_vars

\* C12 witness: the reset has just run on the state a game over left.
C12_Witness ==
  /\ gameState = "MENU"
  /\ HasEv(out, "setHealth", "reset")
  /\ lastStats.set

\* the weapon types
Weapons == {"BLASTER", "SPREAD", "RAPID", "PLASMA"}

\* the labels of the weapon pickups among the floating texts of o, in order
WeaponPickups(o) ==
  SelectSeq(Args(o, "spawnFloatingText"), LAMBDA l : l \in Weapons)

\* C13: the weapon is always one of the four types; a frame that picks up
\* weapon powerups leaves the weapon of the last one picked up (SPREAD,
\* RAPID, PLASMA for WEAPON_SPREAD, WEAPON_RAPID, WEAPON_PLASMA); a frame
\* without a weapon pickup in which the player is damaged leaves BLASTER; any
\* other frame leaves the weapon as it was.
C13_WeaponFollowsPickupsAndDamage ==
  /\ [](player.weaponType \in Weapons)
  /\ [][Frame =>
          player'.weaponType =
            IF Len(WeaponPickups(out')) > 0
            THEN WeaponPickups(out')[Len(WeaponPickups(out'))]
            ELSE IF Damaged' THEN "BLASTER"
            ELSE player.weaponType]_vars

\* C13 witness: the player has been damaged and is back to BLASTER while
\* bullets of the upgraded weapon are still in flight.
C13_Witness ==
  /\ Damaged
  /\ player.weaponType = "BLASTER"
  /\ \E i \in 1..Len(projectiles) :
        projectiles[i].isPlayer /\ projectiles[i].type # "BLASTER"

\* the health reported last before event i of o; h0 when none was
HealthBefore(o, i, h0) == LastArg(SubSeq(o, 1, i - 1), "setHealth", h0)

\* the player and the enemy e overlap
Touching(e) == Overlap(player.x, player.y, PSize, PSize, e.x, e.y, e.w, e.h)

\* C14: every body collision reports a health exactly 20 below the health
\* before it, and the player's hp is the health reported last; no enemy but
\* a boss is left touching the player after a frame (the enemy that rams is
\* removed), and bosses appear in BOSS missions only; in an ELIMINATION
\* mission every body collision adds 1 to currentValue (with the kills by
\* projectiles while the mission is incomplete); a boss that rams stays in
\* the collection and its ramming completes nothing; onGameOver is called
\* only for a damage that leaves hp <= 0.
C14_RamCostsTwenty ==
  /\ [](\A j \in 1..Len(enemies) :
          /\ enemies[j].hp > 0
          /\ enemies[j].type = "boss" <=> stats.mission.type = "BOSS"
          /\ enemies[j].type # "boss" => ~Touching(enemies[j]))
  /\ [][Frame =>
          /\ \A i \in 1..Len(out') :
               out'[i].cb = "setHealth" /\ out'[i].at = "ram" =>
                 out'[i].v = HealthBefore(out', i, player.hp) - 20
          /\ player'.hp = LastArg(out', "setHealth", player.hp)
          /\ gameState = "PLAYING" /\ stats.mission.type = "ELIMINATION"
               /\ ~stats.mission.isComplete =>
                 stats'.mission.currentValue =
                   stats.mission.currentValue + Count(out', "setHealth", "ram")
                   + (IF stats'.mission.isComplete THEN 0
                      ELSE Count(out', "playExplosion", "kill"))
          /\ stats.mission.type = "BOSS" /\ Count(out', "setHealth", "ram") > 0
               /\ Count(out', "playExplosion", "kill") = 0 =>
                 /\ Len(enemies') = Len(enemies)
                 /\ stats'.mission = stats.mission
          /\ Len(Args(out', "onGameOver")) =
               Len(SelectSeq(out', LAMBDA e : IsDamage(e) /\ e.v <= 0))]_vars

\* C14 witness: an enemy has just rammed the player in an ELIMINATION
\* mission, and the player lives.
C14_Witness ==
  /\ HasEv(out, "setHealth", "ram")
  /\ stats.mission.type = "ELIMINATION"
  /\ player.hp > 0
  /\ ~HasCb(out, "onGameOver")

\* the damage of a bullet of the player's weapon
BulletDamage(weapon) == IF weapon = "PLASMA" THEN 3 ELSE 1

\* the hp the boss of a BOSS mission is left with by the hits of the coming
\* frame, every bullet in flight or fired being of the player's weapon
BossHpAfterHits ==
  enemies[1].hp
  - BulletDamage(player.weaponType) * Count(out', "spawnExplosion", "bullet")

\* C15: a frame in which player projectiles hit but no enemy dies leaves
\* score, maxCombo and enemiesDestroyed unchanged, drops no powerup, leaves
\* the combo as it was or reset (by damage or timeout), and leaves a BOSS
\* mission as it was; the boss hit by the bullets of the player's weapon
\* loses exactly their damage, no bullet that touches it stays in flight,
\* and it dies in that frame exactly if that leaves it no hp.
C15_HitBelowLethalOnlyLowersHp ==
  [][Frame /\ Count(out', "spawnExplosion", "bullet") > 0 =>
       /\ Count(out', "playExplosion", "kill") = 0 =>
            /\ stats'.score = stats.score
            /\ stats'.maxCombo = stats.maxCombo
            /\ stats'.enemiesDestroyed = stats.enemiesDestroyed
            /\ stats'.combo \in {stats.combo, 0}
            /\ Len(powerups') <= Len(powerups)
            /\ stats.mission.type = "BOSS" => stats'.mission = stats.mission
       /\ /\ stats.mission.type = "BOSS" /\ Len(enemies) = 1
          /\ \A i \in 1..Len(projectiles) :
               projectiles[i].isPlayer =>
                 projectiles[i].damage = BulletDamage(player.weaponType)
          => IF BossHpAfterHits > 0
             THEN /\ Count(out', "playExplosion", "kill") = 0
                  /\ Len(enemies') = 1
                  /\ enemies'[1].hp = BossHpAfterHits
                  /\ \A i \in 1..Len(projectiles') :
                       LET q == projectiles'[i]
                       IN q.isPlayer =>
                            /\ q.damage > 0
                            /\ ~Overlap(q.x, q.y, q.size, q.size, enemies'[1].x,
                                        enemies'[1].y, enemies'[1].w, enemies'[1].h)
             ELSE Count(out', "playExplosion", "kill") > 0]_vars

\* C15 witness: a bullet has just hit the boss, which lives on.
C15_Witness ==
  /\ HasEv(out, "spawnExplosion", "bullet")
  /\ ~HasEv(out, "playExplosion", "kill")
  /\ Len(enemies) = 1
  /\ enemies[1].type = "boss"
  /\ enemies[1].hp < enemies[1].maxHp

\* C16: no enemy, boss included, has more hp than its maxHp, and the player
\* never has more than 100; every HEALTH pickup reports the health before it
\* plus 20, capped at 100.
C16_HpWithinMaxHp ==
  /\ [](/\ player.hp <= 100
        /\ \A j \in 1..Len(enemies) : enemies[j].hp <= enemies[j].maxHp)
  /\ [][Frame =>
          \A i \in 1..Len(out') :
            out'[i].cb = "setHealth" /\ out'[i].at = "pickup" =>
              out'[i].v = Min(100, HealthBefore(out', i, player.hp) + 20)]_vars

\* C16 witness: a HEALTH pickup has just been capped at 100.
C16_Witness ==
  /\ HasEv(out, "setHealth", "pickup")
  /\ HasEv(out, "spawnFloatingText", "pickup")
  /\ player.hp = 100

\* m is the mission a wave w may start with
MissionOf(w, m) ==
  /\ m.currentValue = 0
  /\ ~m.isComplete
  /\ m.type \in {"BOSS", "ELIMINATION", "SURVIVAL"}
  /\ m.type = "BOSS" <=> w % 5 = 0
  /\ m.type = "BOSS" => m.targetValue = 1
  /\ m.type = "ELIMINATION" => m.targetValue = 10 + 2 * w
  /\ m.type = "SURVIVAL" => w > 2 /\ m.targetValue = 30 + 2 * Min(w, 10)

\* C17: the frame that starts a wave w (the first frame of a game for wave
\* 1, the frame that advances the wave for the others) leaves a mission with
\* currentValue 0 and isComplete false that is BOSS with target 1 exactly if
\* w is a multiple of 5, and otherwise ELIMINATION with target 10 + 2w or,
\* only if w > 2, SURVIVAL with target 30 + 2 min(w, 10).
C17_MissionOfWave ==
  [][Frame /\ (stats'.wave # stats.wave \/ frameCount' = 1) =>
       /\ stats'.wave >= 1
       /\ stats'.wave = IF frameCount' = 1 THEN 1 ELSE stats.wave + 1
       /\ MissionOf(stats'.wave, stats'.mission)]_vars

\* C17 witness: a wave beyond the tenth has just started with a SURVIVAL
\* mission.
C17_Witness ==
  /\ stats.wave > 10
  /\ stats.mission.type = "SURVIVAL"
  /\ stats.mission.currentValue = 0
  /\ waveTransitionTimer = 0
  /\ hist.ticks = MaxTicks - MissionFrames + 1

\* a boss died in the last step
BossDied == \E i \in 1..Len(out) :
              out[i].cb = "playExplosion" /\ out[i].at = "kill" /\ out[i].v = 1

\* C18: a frame of a BOSS mission marks the mission complete exactly if a
\* player projectile brings the boss to hp <= 0 in it: no other frame does,
\* whatever time has passed and whatever has rammed the player, and the boss
\* leaves the collection in no other frame before the wave advances.
C18_BossMissionCompletesOnBossDeath ==
  [][Frame /\ stats.mission.type = "BOSS" /\ ~stats.mission.isComplete =>
       /\ stats'.mission.type = "BOSS"
       /\ stats'.mission.isComplete <=> BossDied'
       /\ ~BossDied' /\ Len(enemies) = 1 =>
            Len(enemies') = 1 /\ enemies'[1].type = "boss"]_vars

\* C18 witness: the boss has just been shot down and its mission is complete.
C18_Witness ==
  /\ BossDied
  /\ stats.mission.type = "BOSS"
  /\ stats.mission.isComplete
  /\ hist.sinceComplete = 0

\* C19: a SURVIVAL mission is complete exactly if its currentValue has
\* reached 60 times its target; a PLAYING frame of the incomplete mission
\* adds exactly 1 to currentValue, whatever is shot or rammed in it, and any
\* other frame that does not advance the wave leaves it unchanged.
C19_SurvivalCountsFrames ==
  /\ [](stats.mission.type = "SURVIVAL" =>
          (stats.mission.isComplete <=>
             stats.mission.currentValue >= 60 * stats.mission.targetValue))
  /\ [][Frame /\ stats.mission.type = "SURVIVAL" /\ stats'.wave = stats.wave =>
          stats'.mission.currentValue =
            IF gameState = "PLAYING" /\ ~stats.mission.isComplete
            THEN stats.mission.currentValue + 1
            ELSE stats.mission.currentValue]_vars

\* C19 witness: a SURVIVAL mission has just run out, enemies having been
\* shot on the way.
C19_Witness ==
  /\ stats.mission.type = "SURVIVAL"
  /\ stats.mission.isComplete
  /\ hist.sinceComplete = 0
  /\ stats.mission.currentValue = 60 * stats.mission.targetValue
  /\ stats.enemiesDestroyed > 26

\* C20: the frame that advances the wave empties the enemies and the
\* projectiles and leaves the powerups, the particles, the floating texts,
\* the score, the player's hp and weapon, the combo and maxCombo unchanged.
C20_WaveAdvanceClearsEnemiesAndProjectiles ==
  [][Frame /\ stats'.wave # stats.wave =>
       /\ enemies' = << >>
       /\ projectiles' = << >>
       /\ powerups' = powerups
       /\ particles' = particles
       /\ floatingTexts' = floatingTexts
       /\ stats'.score = stats.score
       /\ player'.hp = player.hp
       /\ player'.weaponType = player.weaponType
       /\ stats'.combo = stats.combo
       /\ stats'.maxCombo = stats.maxCombo]_vars

\* C20 witness: the wave has just advanced over a powerup and particles
\* left on the screen.
C20_Witness ==
  /\ stats.wave = 2
  /\ hist.sinceComplete = -1
  /\ frameCount > 1
  /\ stats.mission.currentValue = 0
  /\ waveTransitionTimer = 0
  /\ Len(powerups) > 0
  /\ Len(particles) > 0
  /\ enemies = << >>
  /\ projectiles = << >>

\* the spawn interval of the policy: the base interval 60 - floor(score/500),
\* not below 20 frames, or in a SURVIVAL wave six tenths of it, not below 15
\* frames, rounded down
SpawnInterval(score, type) ==
  LET base == 60 - score \div 500
  IN IF type = "SURVIVAL"
     THEN (IF 6 * base >= 150 THEN (6 * base) \div 10 ELSE 15)
     ELSE (IF base >= 20 THEN base ELSE 20)

\* C21: a frame spawns a regular enemy exactly if the game is PLAYING, the
\* mission it starts with is an incomplete ELIMINATION or SURVIVAL mission
\* and the frame's counter is a multiple of the policy's interval for the
\* score it starts with (one enemy, never more); a BOSS wave spawns none; the
\* interval the code computes is the policy's and at least 15 for every score
\* (tabulated before the first frame of a game up to 500 * MaxScoreSteps + 499,
\* and for the score of every state).
C21_SpawnsOnIntervalFrames ==
  /\ [](frameCount = 0 =>
          \A k \in 0..MaxScoreSteps : \A d \in {0, 499} :
            \A t \in {"ELIMINATION", "SURVIVAL"} :
              /\ spawnRate(500 * k + d, t) = SpawnInterval(500 * k + d, t)
              /\ spawnRate(500 * k + d, t) >= 15)
  /\ [](\A t \in {"ELIMINATION", "SURVIVAL"} :
          /\ spawnRate(stats.score, t) = SpawnInterval(stats.score, t)
          /\ spawnRate(stats.score, t) >= 15)
  /\ [][Frame =>
          Count(out', "spawnEnemy", "spawn") =
            IF /\ gameState = "PLAYING"
               /\ ~stats.mission.isComplete
               /\ stats.mission.type # "BOSS"
               /\ frameCount' % SpawnInterval(stats.score, stats.mission.type) = 0
            THEN 1 ELSE 0]_vars

\* C21 witness: a SURVIVAL wave has just spawned an enemy on a multiple of
\* its interval of 33 frames that is no multiple of the base interval of 55.
C21_Witness ==
  /\ HasEv(out, "spawnEnemy", "spawn")
  /\ stats.mission.type = "SURVIVAL"
  /\ frameCount % 33 = 0
  /\ frameCount % 55 # 0

\* the least n with 5 * n >= wave
FifthsUp(wave) == CHOOSE n \in 0..wave : 5 * n >= wave /\ 5 * (n - 1) < wave

\* C22: the enemies hold at most one boss, and none unless the mission is a
\* BOSS mission; spawnBoss is called at most once in a wave, and a frame calls
\* it exactly if the game is PLAYING and the mission it starts with is an
\* incomplete BOSS mission whose boss has not been spawned; the boss it leaves
\* has hp = maxHp = 500 + 150 * wave and scoreValue 5000 * ceil(wave / 5).
C22_OneBossPerBossMission ==
  /\ [](/\ Bosses(enemies) <= 1
        /\ hist.bossSpawns <= 1
        /\ Bosses(enemies) <= hist.bossSpawns
        /\ stats.mission.type # "BOSS" => Bosses(enemies) = 0 /\ hist.bossSpawns = 0)
  /\ [][Frame =>
          /\ Count(out', "spawnBoss", "spawn") =
               IF /\ gameState = "PLAYING"
                  /\ stats.mission.type = "BOSS"
                  /\ ~stats.mission.isComplete
                  /\ hist.bossSpawns = 0
               THEN 1 ELSE 0
          /\ HasEv(out', "spawnBoss", "spawn") =>
               LET b == enemies'[Len(enemies')]
               IN /\ Len(enemies') = 1
                  /\ b.type = "boss"
                  /\ b.hp = 500 + 150 * stats.wave
                  /\ b.maxHp = b.hp
                  /\ b.scoreValue = 5000 * FifthsUp(stats.wave)]_vars

\* C22 witness: the boss of wave 10 was spawned in the wave's first frame and
\* has since come down alone for some frames.
C22_Witness ==
  /\ stats.wave = 10
  /\ stats.mission.type = "BOSS"
  /\ hist.bossSpawns = 1
  /\ Bosses(enemies) = 1
  /\ enemies[1].scoreValue = 10000
  /\ enemies[1].moveTimer >= 3

\* C23: the wave is at least 1; a step changes it only by advancing it by
\* exactly 1 in the PLAYING frame that ends the transition delay of a
\* complete mission, or by setting it back to 1 in the MENU reset; no frame
\* with a collision, a spawn or a game over, and no CUSTOMIZE frame, changes
\* it.
C23_WaveChangesByTransitionOnly ==
  /\ [](stats.wave >= 1)
  /\ [][stats'.wave # stats.wave =>
          \/ MenuReset /\ stats'.wave = 1
          \/ /\ Frame
             /\ gameState = "PLAYING"
             /\ stats.mission.isComplete
             /\ waveTransitionTimer = TransitionDelay
             /\ stats'.wave = stats.wave + 1
             /\ out' = << >>]_vars

\* C23 witness: the frame that ended the transition delay of wave 1 has just
\* advanced the wave to 2.
C23_Witness ==
  /\ gameState = "PLAYING"
  /\ stats.wave = 2
  /\ stats.mission.targetValue = 14
  /\ ~stats.mission.isComplete
  /\ waveTransitionTimer = 0
  /\ hist.sinceComplete = -1
  /\ out = << >>
  /\ stats.enemiesDestroyed > 0

\* C24: the player is on the screen in every state, 0 <= x <= width - size.x
\* and 0 <= y <= height - size.y (the canvas being at least as large as the
\* ship), wherever the pointer is; the pointer position is stored as
\* delivered, and an active frame moves the player toward it along each axis
\* by at least a unit when it is a pixel or more away, unless the player is
\* held at the screen's border.
C24_PlayerStaysOnScreen ==
  /\ [](/\ 0 <= player.x /\ player.x <= W - PSize
        /\ 0 <= player.y /\ player.y <= H - PSize)
  /\ [][Frame /\ gameState = "PLAYING" /\ ~stats.mission.isComplete
            /\ frameCount > 0 =>
          LET gx == targetPos.x - PSize \div 2
              gy == targetPos.y - PSize - 20 * Scale
          IN /\ gx <= player.x - Scale =>
                  player'.x < player.x \/ player'.x = 0
             /\ gx >= player.x + Scale =>
                  player'.x > player.x \/ player'.x = W - PSize
             /\ gy <= player.y - Scale =>
                  player'.y < player.y \/ player'.y = 0
             /\ gy >= player.y + Scale =>
                  player'.y > player.y \/ player'.y = H - PSize
             /\ targetPos' = targetPos]_vars

\* C24 witness: the pointer is off the canvas, below it and to its left, and
\* the player is held in the screen's bottom left corner.
C24_Witness ==
  /\ gameState = "PLAYING"
  /\ targetPos.x < 0
  /\ targetPos.y > H
  /\ player.x = 0
  /\ player.y = H - PSize

\* the pointer events of es that were delivered in PLAYING
Accepted(es) == SelectSeq(es, LAMBDA e : e.gs = "PLAYING")

\* the step delivers a pointer event
Touch == hist'.pointerEvents = hist.pointerEvents + 1

Gameplay(w) ==
  << w.player.x, w.player.y, w.player.hp, w.player.weaponType, w.target,
     w.enemies, w.powerups, w.projectiles, w.texts, w.stats, w.comboTimer,
     w.frameCount, w.wtt, w.shake >>

\* the world flown with trail t and colour c, its particles being ps
Refitted(t, c, ps) ==
  [World EXCEPT !.trail = t, !.player.color = c, !.particles = ps]

\* the worlds the state is compared with: every trail with another colour,
\* and the state's own loadout without its particles
Refits ==
  {Refitted(t, c, particles) : t \in Trails, c \in Colors \ {player.color}}
  \cup {Refitted(playerConfig.trailType, player.color, << >>)}

\* C26: a change of the loadout changes nothing of the gameplay state, and
\* a frame leaves the same gameplay state (player hp, position and weapon,
\* enemies, projectiles, powerups, floating texts, stats and mission, timers)
\* and raises the same callbacks whatever the loadout it is run with: from
\* every state reached, the frame run with the same draws under each trail
\* with another colour, or under the state's loadout without its particles,
\* ends in the gameplay state of the frame that was run. Two runs that receive the
\* same mode changes, pointer inputs and draws therefore agree frame for
\* frame.
C26_LoadoutLeavesGameplayAlone ==
  /\ [][playerConfig' # playerConfig =>
          /\ Gameplay(World') = Gameplay(World)
          /\ gameState' = gameState
          /\ hud' = hud]_vars
  /\ [][Frame =>
          \A refit \in Refits :
            \E alt \in {update(refit, hist'.rolls)} :
              /\ Gameplay(alt) = Gameplay(World')
              /\ alt.out = out'
              /\ alt.gameOvers = hist'.gameOvers - hist.gameOvers]_vars

\* C26 witness: a game flown with the turbo trail and the crimson hull has
\* just spawned an enemy, the trail's particles behind the ship.
C26_Witness ==
  /\ gameState = "PLAYING"
  /\ playerConfig.trailType = "turbo"
  /\ player.color # DefaultColor
  /\ HasEv(out, "spawnEnemy", "spawn")
  /\ \E i \in 1..Len(particles) : particles[i] > 40 /\ particles[i] < 50

\* the largest of the values a, or v when none is larger
RECURSIVE Best(_, _)
Best(v, a) ==
  IF Len(a) = 0 THEN v
  ELSE Best(IF a[1] > v THEN a[1] ELSE v, SubSeq(a, 2, Len(a)))

\* C27: no step lowers the high score; a step changes it only if it raises a
\* game-over event; after a step with game-over events it is at least the
\* score of each of them: the larger of the high score before and the score
\* delivered, so that it is overwritten exactly if that score exceeds it.
C27_HighScoreIsBestScore ==
  [][/\ highScore' >= highScore
     /\ highScore' # highScore => HasCb(out', "onGameOver")
     /\ HasCb(out', "onGameOver") =>
          /\ \A i \in 1..Len(out') :
               out'[i].cb = "onGameOver" => highScore' >= out'[i].v
          /\ highScore' = Best(highScore, Args(out', "onGameOver"))]_vars

\* C27 witness: a game over has just ended a game whose score is below the
\* stored high score, which stays.
C27_Witness ==
  /\ gameState = "GAME_OVER"
  /\ HasCb(out, "onGameOver")
  /\ highScore = 1210
  /\ stats.score < highScore

\* the debrief that stands for a failed request
Fallback == "Sistem komunikasi rusak. Kembali ke pangkalan segera."

Spawned(o) == Count(o, "spawnEnemy", "spawn") + Count(o, "spawnBoss", "spawn")

\* C29: each enemy's death is resolved at most once, also when several
\* player projectiles overlap it in the same frame: a frame counts no more
\* enemies destroyed, and plays no more death explosions, than enemies left
\* the field in it.
C29_EachDeathResolvedOnce ==
  [][Frame =>
       LET gone == Len(enemies) + Spawned(out') - Len(enemies')
       IN /\ stats'.enemiesDestroyed - stats.enemiesDestroyed <= gone
          /\ Count(out', "playExplosion", "kill") <= gone]_vars

\* C30: whenever the mode becomes PLAYING, from MENU or from GAME_OVER, the
\* run starts fresh: hp 100, the BLASTER, score 0, wave 1, combo 0, and no
\* enemies or projectiles.
C30_PlayingStartsFresh ==
  [][gameState # "PLAYING" /\ gameState' = "PLAYING" =>
       /\ player'.hp = 100
       /\ player'.weaponType = "BLASTER"
       /\ stats'.score = 0
       /\ stats'.wave = 1
       /\ stats'.combo = 0
       /\ enemies' = << >>
       /\ projectiles' = << >>]_vars

\* the arguments of the calls of cb at place at, in order
ArgsAt(o, cb, at) ==
  LET sel == SelectSeq(o, LAMBDA e : e.cb = cb /\ e.at = at)
  IN [i \in 1..Len(sel) |-> sel[i].v]

\* floor(scoreValue * min(3, 1 + 0.1 * c)) in exact arithmetic
ExactPay(scoreValue, c) == (scoreValue * Min(30, 10 + c)) \div 10

\* the same product as doubles give it: 100 * (1 + 13 * 0.1) is
\* 229.99999999999997, so the thirteenth kill of a streak pays one point less
\* for the score values 100 and 200
DoublePay(scoreValue, c) ==
  ExactPay(scoreValue, c) - IF c = 13 /\ scoreValue \in {100, 200} THEN 1 ELSE 0

\* every death a frame resolves pays DoublePay(scoreValue, c), or ExactPay when
\* `double` is FALSE, for one of the enemies
\* on the field, c being the combo the kill reported; enemiesDestroyed counts
\* each death, and a frame with a death ends with the combo timer at 120
KillsPay(double) ==
  LET cs == ArgsAt(out', "setCombo", "kill")
      ss == ArgsAt(out', "setScore", "kill")
      svs == {enemies[i].scoreValue : i \in 1..Len(enemies)}
               \cup IF Count(out', "spawnEnemy", "spawn") > 0
                    THEN {100, 200, 300} ELSE {}
  IN /\ Len(cs) = Count(out', "playExplosion", "kill")
     /\ Len(ss) = Len(cs)
     /\ \A i \in 1..Len(ss) :
          /\ cs[i] >= 1
          /\ \E sv \in svs :
               ss[i] - (IF i = 1 THEN stats.score ELSE ss[i - 1]) =
                 IF double THEN DoublePay(sv, cs[i]) ELSE ExactPay(sv, cs[i])
     /\ stats'.enemiesDestroyed = stats.enemiesDestroyed + Len(cs)
     /\ stats'.score = IF Len(ss) = 0 THEN stats.score ELSE ss[Len(ss)]
     /\ Len(cs) > 0 => comboTimer' = COMBO_TIMEOUT_FRAMES

Owned(ps, isPlayer) == Len(SelectSeq(ps, LAMBDA q : q.isPlayer = isPlayer))

\* the projectiles the events o of a frame fired: the player's, one a shot or
\* the three of the SPREAD weapon, and the three of each boss attack
Fired(o, weapon, isPlayer) ==
  IF isPlayer
  THEN Count(o, "playShoot", "fire") * (IF weapon = "SPREAD" THEN 3 ELSE 1)
  ELSE 3 * Count(o, "playShoot", "boss")

\* C32: projectiles are single-use and owned. Every projectile in the
\* collection has damage > 0, so has dealt no hit; each hit a frame deals to
\* an enemy takes one player projectile out of the collection by the end of
\* that frame, and each hit it deals to the player takes one enemy projectile
\* out: no projectile hits twice, none outlives its hit, and without a
\* projectile of the other side there is no hit.
C32_ProjectilesSingleUse ==
  /\ [](\A i \in 1..Len(projectiles) : projectiles[i].damage > 0)
  /\ [][Frame =>
          /\ Count(out', "spawnExplosion", "bullet")
               <= Owned(projectiles, TRUE)
                    + Fired(out', player.weaponType, TRUE)
                    - Owned(projectiles', TRUE)
          /\ Count(out', "setHealth", "hit")
               <= Owned(projectiles, FALSE)
                    + Fired(out', player.weaponType, FALSE)
                    - Owned(projectiles', FALSE)]_vars

\* C32 witness: bullets of a SPREAD volley have hit an enemy and are gone;
\* a bullet of the volley that missed flies on.
C32_Witness ==
  /\ Count(out, "spawnExplosion", "bullet") >= 1
  /\ Owned(projectiles, TRUE) >= 1
  /\ \A i \in 1..Len(projectiles) : projectiles[i].type = "SPREAD"

\* the cooldown of a weapon
Cooldown(weapon) ==
  IF weapon = "RAPID" THEN RAPID_SHOOT_COOLDOWN ELSE BASE_SHOOT_COOLDOWN

\* C33 (as claimed): a shot comes no sooner after the shot before it than the
\* cooldown of the weapon then held: never less than 8 frames, and never less
\* than 15 unless the weapon is RAPID, also when the weapon changed between
\* the two; each shot adds exactly 1 to shotsFired.
C33_ShotsKeepCooldown ==
  [][Frame =>
       /\ stats'.shotsFired =
            stats.shotsFired + Count(out', "playShoot", "fire")
       /\ HasEv(out', "playShoot", "fire") /\ hist.lastShot >= 0 =>
            frameCount' - hist.lastShot >= Cooldown(player.weaponType)]_vars

\* C33 (amended): the player fires exactly in the frames of an unfinished
\* mission whose number is a multiple of the cooldown of the weapon held
\* when the frame starts (15, or 8 for RAPID); two consecutive shots fired
\* with the same kind of cooldown are at least that cooldown apart; each shot
\* adds exactly 1 to shotsFired.
C33_ShotsOnCooldownFrames ==
  [][Frame =>
       /\ stats'.shotsFired =
            stats.shotsFired + Count(out', "playShoot", "fire")
       /\ Count(out', "playShoot", "fire") =
            IF /\ gameState = "PLAYING"
               /\ ~stats.mission.isComplete
               /\ frameCount' % Cooldown(player.weaponType) = 0
            THEN 1 ELSE 0
       /\ /\ HasEv(out', "playShoot", "fire")
          /\ hist.lastShot >= 0
          /\ Cooldown(hist.shotWith) = Cooldown(player.weaponType)
          => frameCount' - hist.lastShot >= Cooldown(player.weaponType)]_vars

\* C33 witness: a RAPID shot has just been fired eight frames after the
\* RAPID shot before it.
C33_Witness ==
  /\ HasEv(out, "playShoot", "fire")
  /\ hist.shotWith = "RAPID"
  /\ \E i \in 1..Len(projectiles) :
       /\ projectiles[i].type = "RAPID"
       /\ projectiles[i].y = player.y - 8 * 12 * Scale - 12 * Scale

\* the step is a frame of an unfinished mission with a boss on the field
BossFrame ==
  /\ Frame
  /\ gameState = "PLAYING"
  /\ ~stats.mission.isComplete
  /\ Bosses(enemies) = 1

\* the boss, and its attack of the frame that starts with boss b
Boss(es) == SelectSeq(es, LAMBDA e : e.type = "boss")[1]

\* what every frame does to a boss, whatever the attack timers: the phase is
\* evaluated from the hp the frame starts with, and an attack is three enemy
\* projectiles of damage 15
BossPhaseAndVolley ==
  [][BossFrame =>
       LET b == Boss(enemies)
           shots == bossShots(b, player')
       IN /\ Bosses(enemies') = 1 =>
               Boss(enemies').phase = IF 2 * b.hp < b.maxHp THEN 2 ELSE 1
          /\ Len(shots) = 3 * Count(out', "playShoot", "boss")
          /\ Count(out', "playShoot", "boss") <= 1
          /\ \A i \in 1..Len(shots) :
               ~shots[i].isPlayer /\ shots[i].damage = 15]_vars

\* consecutive attacks of one phase are p1 (phase 1) or p2 (phase 2) frames
\* apart, and so is the first attack from the boss's arrival
AttacksApart(p1, p2) ==
  BossFrame /\ HasEv(out', "playShoot", "boss") =>
    LET b == Boss(enemies)
        ph == IF 2 * b.hp < b.maxHp THEN 2 ELSE 1
        gap == IF hist.sinceAttack < 0 THEN b.moveTimer + 1
               ELSE hist.sinceAttack + 1
    IN (hist.sinceAttack < 0 \/ hist.attackPhase = ph) =>
         gap = IF ph = 2 THEN p2 ELSE p1

\* C34 (as claimed): the boss's phase follows its hp, and its attacks, of
\* three projectiles of damage 15 each, are exactly 80 frames apart in phase
\* 1 and 40 in phase 2.
C34_BossAttacksEvery80Or40 ==
  BossPhaseAndVolley /\ [][AttacksApart(80, 40)]_vars

\* C34 (amended): the same with the attacks 81 frames apart in phase 1 and
\* 41 in phase 2.
C34_BossAttacksEvery81Or41 ==
  BossPhaseAndVolley /\ [][AttacksApart(81, 41)]_vars

\* C34 witness: the boss, in phase 2 since its attack 41 frames ago, has just
\* attacked again.
C34_Witness ==
  /\ Bosses(enemies) = 1
  /\ Boss(enemies).phase = 2
  /\ 2 * Boss(enemies).hp < Boss(enemies).maxHp
  /\ HasEv(out, "playShoot", "boss")
  /\ hist.sinceAttack = 0
  /\ Boss(enemies).moveTimer = 122 + 41

\* the collections as the cleanup pass leaves them
Tidy ==
  /\ \A i \in 1..Len(projectiles) :
       LET q == projectiles[i]
       IN ~q.nan /\ q.damage > 0 /\ q.y > -50 * Scale /\ q.y < H + 50 * Scale
  /\ \A i \in 1..Len(enemies) :
       LET e == enemies[i]
       IN e.hp > 0 /\ (e.type # "boss" => e.y < H + 100 * Scale)
  /\ \A i \in 1..Len(powerups) :
       powerups[i].hp > 0 /\ powerups[i].y < H + 50 * Scale

\* the frame resolves no kill, no ram, no hit and no combo timeout
Uneventful ==
  /\ Frame
  /\ ~HasEv(out', "playExplosion", "kill")
  /\ ~HasEv(out', "playExplosion", "ram")
  /\ ~HasEv(out', "playExplosion", "hit")
  /\ ~HasEv(out', "setCombo", "decay")

\* C35: after the cleanup pass the collections hold no spent or off-screen
\* projectile, no dead enemy, no regular enemy 100 or more below the screen
\* and no consumed or off-screen powerup; a frame in which enemies only leave
\* the screen changes neither score, combo, enemiesDestroyed nor the
\* progress of an ELIMINATION mission.
C35_CleanupLeavesNoLitter ==
  /\ []Tidy
  /\ [][Uneventful =>
          /\ stats'.score = stats.score
          /\ stats'.combo = stats.combo
          /\ stats'.enemiesDestroyed = stats.enemiesDestroyed
          /\ stats.mission.type = "ELIMINATION" /\ stats'.wave = stats.wave =>
               stats'.mission.currentValue = stats.mission.currentValue]_vars

\* C35 witness: wave 1, an enemy every 60 frames. The enemy spawned 60
\* frames before the one now in front has in this frame reached the line 100
\* below the screen and is gone; the frame raised no event.
C35_Witness ==
  /\ gameState = "PLAYING"
  /\ hist.ticks > MaxTicks - 85
  /\ stats.wave = 1
  /\ stats.score < 500
  /\ out = << >>
  /\ Len(enemies) > 0
  /\ LET e == enemies[1]
     IN /\ e.type = "enemy_basic"
        /\ e.y + 60 * e.vy >= H + 100 * Scale
        /\ e.y + 59 * e.vy < H + 100 * Scale

\* C36: once the player's hp is <= 0 it stays <= 0 until the next MENU reset:
\* the frame that raises a game-over event ends with hp <= 0, no later step
\* but the reset brings the hp above 0, and no frame runs for a dead player.
C36_DeadStaysDead ==
  /\ [][HasCb(out', "onGameOver") => player'.hp <= 0]_vars
  /\ [][player.hp <= 0 =>
          \/ gameState' = "MENU" /\ player'.hp = PlayerMaxHp
          \/ player'.hp <= 0 /\ ~Frame]_vars

-----------------------------------------------------------------------------
(* The ramming: runs of wave 1 with one enemy left to destroy, the ship on
   station between the two left spawn columns *)

\* the ship at the bottom faces an enemy of the second column and stands
\* beside one of the first
RamTargets == { [x |-> 46 * Scale, y |-> yy * Scale] : yy \in {120, 272} }

\* wave 1 with 11 enemies shot and none on the screen, at the frame before
\* a spawn: the last 40 frames, which spawn nothing, are run by update
RamWorld(t) ==
  Run(Blank(58 * 40 - 1 - 40, 100, t, Wave1Stats(11, 0, 58 * 40 - 1 - 40)), 40)

RamInit ==
  \E t \in RamTargets :
    \E w \in {RamWorld(t)} :
       /\ gameState = w.gs
       /\ playerConfig = [trailType |-> w.trail, color |-> w.player.color]
       /\ hud = [score |-> w.stats.score, combo |-> w.stats.combo,
                 health |-> w.player.hp]
       /\ highScore = 0
       /\ lastStats = [set |-> FALSE, live |-> FALSE, val |-> w.stats]
       /\ player = w.player
       /\ targetPos = w.target
       /\ enemies = w.enemies
       /\ powerups = w.powerups
       /\ projectiles = w.projectiles
       /\ particles = w.particles
       /\ floatingTexts = w.texts
       /\ stats = w.stats
       /\ comboTimer = w.comboTimer
       /\ frameCount = w.frameCount
       /\ waveTransitionTimer = w.wtt
       /\ shakeIntensity = w.shake
       /\ out = << >>
       /\ debrief = [text |-> "", pending |-> << >>]
       /\ hist = [ticks |-> MaxTicks - RamFrames, pointerEvents |-> 0,
                  modeChanges |-> 0, loadoutChanges |-> 0,
                  gameOvers |-> 0, delivered |-> w.stats, streak |-> 0,
                  sinceKill |-> -1, sinceComplete |-> -1,
                  bossSpawns |-> 0, pending |-> << >>, touched |-> << >>,
                  rolls |-> NoRolls,
                  lastShot |-> LastShot(w), shotWith |-> "BLASTER",
                  sinceAttack |-> SinceAttack(w.enemies),
                  attackPhase |-> PhaseOf(w.enemies)]

RamNext == Update

RamSpec == RamInit /\ [][RamNext]_vars

\* the step is a frame of an unfinished mission in which enemies ram the
\* player
RamFrame ==
  /\ Frame
  /\ gameState = "PLAYING"
  /\ ~stats.mission.isComplete
  /\ HasEv(out', "playExplosion", "ram")

\* C37: an enemy destroyed by ramming the player gives no kill reward. A
\* frame with rams and no kill leaves score, enemiesDestroyed and maxCombo
\* unchanged, leaves the combo at 0 and drops no powerup; in an ELIMINATION
\* mission every ram of a frame adds 1 to currentValue, also when the mission
\* has been completed in that frame, whereas the frame's kills count only
\* while it is unfinished.
C37_RamGivesNoReward ==
  /\ [][RamFrame /\ ~HasEv(out', "playExplosion", "kill") =>
          /\ stats'.score = stats.score
          /\ stats'.enemiesDestroyed = stats.enemiesDestroyed
          /\ stats'.maxCombo = stats.maxCombo
          /\ stats'.combo = 0
          /\ Len(powerups') <= Len(powerups)]_vars
  /\ [][RamFrame /\ stats.mission.type = "ELIMINATION" =>
          stats'.mission.currentValue =
            stats.mission.currentValue
              + Count(out', "playExplosion", "ram")
              + IF stats'.mission.isComplete THEN 0
                ELSE Count(out', "playExplosion", "kill")]_vars
  /\ [][RamFrame /\ stats.mission.type # "ELIMINATION" =>
          stats'.mission.currentValue - stats.mission.currentValue
            = IF stats.mission.type = "SURVIVAL" THEN 1 ELSE 0]_vars

\* C37 witness: the frame that completed the ELIMINATION mission also saw a
\* ram, which took currentValue beyond the target.
C37_Witness ==
  /\ stats.mission.type = "ELIMINATION"
  /\ stats.mission.isComplete
  /\ stats.mission.currentValue > stats.mission.targetValue
  /\ HasEv(out, "playExplosion", "ram")

\* C38: in every reachable state 0 <= combo <= maxCombo; maxCombo never
\* decreases except by the MENU reset; every game-over event carries
\* combo = 0, the damage event that kills the player having reset the combo
\* before the event is raised.
C38_ComboWithinMaxCombo ==
  /\ [](0 <= stats.combo /\ stats.combo <= stats.maxCombo)
  /\ [][gameState' # "MENU" => stats'.maxCombo >= stats.maxCombo]_vars
  /\ [][Frame /\ HasCb(out', "onGameOver") =>
          /\ hist'.delivered.combo = 0
          /\ stats'.combo = 0
          /\ LastArg(out', "setCombo", -1) = 0]_vars

\* C38 witness: the player has died with a kill streak running: the combo
\* timer of the last kill has not run out, and the combo is 0.
C38_Witness ==
  /\ gameState = "GAME_OVER"
  /\ HasCb(out, "onGameOver")
  /\ comboTimer > 0
  /\ stats.maxCombo > 0
  /\ stats.combo = 0
  /\ hist.delivered.combo = 0

\* C39: every projectile the boss spawns has finite velocity components,
\* wherever the player is: no attack of the boss divides by an aim vector of
\* length 0.
C39_BossAimIsFinite ==
  [][BossFrame =>
       LET shots == bossShots(Boss(enemies), player')
       IN \A i \in 1..Len(shots) : ~shots[i].nan]_vars

\* a projectile that flies level between the vertical margins, with the
\* canvas behind it: the ship, which stays on the canvas, cannot meet it and
\* the cleanup, which tests y only, keeps it
Stray(q) ==
  /\ ~q.nan
  /\ q.damage > 0
  /\ q.vy = 0
  /\ q.y > -50 * Scale
  /\ q.y < H + 50 * Scale
  /\ \/ q.vx < 0 /\ q.x + q.size <= 0
     \/ q.vx > 0 /\ q.x >= W

\* C40: every projectile eventually leaves the projectile collection while
\* active frames run, by a hit or by the vertical-margin cleanup: none is
\* ever out of reach of both.
C40_ProjectilesLeave ==
  \A i \in 1..Len(projectiles) : ~Stray(projectiles[i])

=============================================================================
